---- MODULE Spec2Model ----
(***************************************************************************)
(* Model of the Excellon parser of FlatCAM                                 *)
(* (flatcamParsers/ParseExcellon.py, class Excellon).                      *)
(*                                                                         *)
(* Numbers.  Python floats are modelled as exact rationals <<n, d>> with   *)
(* d > 0 and gcd(n, d) = 1; Python's None is the pair <<0, 0>>.            *)
(* Text.  A coordinate token is the sequence of its characters, so that    *)
(* decoding a token is computed from its digits as parse_number does;      *)
(* a field that is absent from a line is the token Absent.                 *)
(* Tool keys.  The code keeps str(int(digits)); the model keeps the        *)
(* integer int(digits), and -1 for the empty string "".                    *)
(***************************************************************************)
EXTENDS Integers, Sequences, FiniteSets, TLC

(***************************************************************************)
(* Rational arithmetic                                                     *)
(***************************************************************************)
RECURSIVE GCD(_, _)
GCD(a, b) == IF b = 0 THEN a ELSE GCD(b, a % b)

Abs(a) == IF a < 0 THEN -a ELSE a

RECURSIVE Pow10(_)
Pow10(k) == IF k <= 0 THEN 1 ELSE 10 * Pow10(k - 1)

NoneV == <<0, 0>>

IsNone(v) == v[2] = 0

Rat(n, d) ==
    LET g == GCD(Abs(n), Abs(d))
        s == IF d < 0 THEN -1 ELSE 1
    IN  IF n = 0 THEN <<0, 1>> ELSE <<s * (n \div g), s * (d \div g)>>

RInt(n) == <<n, 1>>

\* products and sums are reduced before they are multiplied out, to stay
\* within the range of the model checker's integers
RMul(a, b) ==
    LET g1 == GCD(Abs(a[1]), b[2])
        g2 == GCD(Abs(b[1]), a[2])
    IN  IF a[1] = 0 \/ b[1] = 0 THEN <<0, 1>>
        ELSE <<(a[1] \div g1) * (b[1] \div g2), (a[2] \div g2) * (b[2] \div g1)>>

RAdd(a, b) ==
    LET g == GCD(a[2], b[2])
    IN  Rat(a[1] * (b[2] \div g) + b[1] * (a[2] \div g), (a[2] \div g) * b[2])

RNeg(a) == <<-a[1], a[2]>>

RSub(a, b) == RAdd(a, RNeg(b))

RHalf(a) == Rat(a[1], 2 * a[2])

\* Python truthiness of a float-or-None: None and 0.0 are false
Truthy(v) == ~IsNone(v) /\ v[1] # 0

(***************************************************************************)
(* Tokens                                                                  *)
(***************************************************************************)
Absent == <<"none">>

DigitChars == {"0", "1", "2", "3", "4", "5", "6", "7", "8", "9"}

DigitVal(c) ==
    CASE c = "0" -> 0 [] c = "1" -> 1 [] c = "2" -> 2 [] c = "3" -> 3
      [] c = "4" -> 4 [] c = "5" -> 5 [] c = "6" -> 6 [] c = "7" -> 7
      [] c = "8" -> 8 [] c = "9" -> 9

HasSign(s) == Len(s) > 0 /\ s[1] \in {"+", "-"}

Unsigned(s) == IF HasSign(s) THEN Tail(s) ELSE s

SignOf(s) == IF Len(s) > 0 /\ s[1] = "-" THEN -1 ELSE 1

HasPeriod(s) == \E i \in 1..Len(s) : s[i] = "."

RECURSIVE DigitsValue(_)
DigitsValue(s) ==
    IF Len(s) = 0 THEN 0
    ELSE 10 * DigitsValue(SubSeq(s, 1, Len(s) - 1)) + DigitVal(s[Len(s)])

\* number of characters of s before its first "." (Len(s) when there is none)
RECURSIVE IntPartLen(_)
IntPartLen(s) ==
    IF Len(s) = 0 \/ s[1] = "." THEN 0 ELSE 1 + IntPartLen(Tail(s))

\* str.partition('.') : the part before and the part after the first "."
PartitionHead(s) == SubSeq(s, 1, IntPartLen(s))

PartitionTail(s) == SubSeq(s, IntPartLen(s) + 2, Len(s))

\* float() of a token matched by [-+]?\d*\.\d* ; None stands for ValueError
FloatLiteral(s) ==
    LET u == Unsigned(s)
        h == PartitionHead(u)
        t == PartitionTail(u)
    IN  IF Len(h) + Len(t) = 0 THEN NoneV
        ELSE Rat(SignOf(s) * (DigitsValue(h) * Pow10(Len(t)) + DigitsValue(t)),
                 Pow10(Len(t)))

\* float() of a token matched by [-+]?\d* ; None stands for ValueError
FloatDigits(s) ==
    IF Len(Unsigned(s)) = 0 THEN NoneV
    ELSE RInt(SignOf(s) * DigitsValue(Unsigned(s)))

\* leadingzeros_re = ^[-\+]?(0*)(\d*) : len(group(1)) + len(group(2))
nr_length(s) == Len(Unsigned(s))

(***************************************************************************)
(* Excellon.parse_number                                                   *)
(* fmt = [upper_in, lower_in, upper_mm, lower_mm]                          *)
(***************************************************************************)
DivPow10(v, k) ==
    IF IsNone(v) THEN NoneV
    ELSE IF k >= 0 THEN Rat(v[1], v[2] * Pow10(k))
    ELSE Rat(v[1] * Pow10(-k), v[2])

\* parse_number with the metric format used for both unit systems
parse_number_metric_upper(number_str, zeros, units, fmt) ==
    IF zeros \in {"L", "LZ"}
    THEN DivPow10(FloatDigits(number_str), nr_length(number_str) - fmt.upper_mm)
    ELSE IF units = "IN"
         THEN DivPow10(FloatDigits(number_str), fmt.lower_in)
         ELSE DivPow10(FloatDigits(number_str), fmt.lower_mm)

\* parse_number with the upper digit count used as the trailing divisor
parse_number_trailing_upper(number_str, zeros, units, fmt) ==
    IF zeros \in {"L", "LZ"}
    THEN IF units = "IN"
         THEN DivPow10(FloatDigits(number_str), nr_length(number_str) - fmt.upper_in)
         ELSE DivPow10(FloatDigits(number_str), nr_length(number_str) - fmt.upper_mm)
    ELSE IF units = "IN"
         THEN DivPow10(FloatDigits(number_str), fmt.upper_in)
         ELSE DivPow10(FloatDigits(number_str), fmt.upper_mm)

parse_number(number_str, zeros, units, fmt) ==
    IF zeros \in {"L", "LZ"}
    THEN IF units = "IN"
         THEN DivPow10(FloatDigits(number_str), nr_length(number_str) - fmt.upper_in)
         ELSE DivPow10(FloatDigits(number_str), nr_length(number_str) - fmt.upper_mm)
    ELSE IF units = "IN"
         THEN DivPow10(FloatDigits(number_str), fmt.lower_in)
         ELSE DivPow10(FloatDigits(number_str), fmt.lower_mm)

(***************************************************************************)
(* The document.  A document value is the record                           *)
(*   [tools, drills, slots, units, solid_geometry]                         *)
(* tools : tool key -> [C, solid_geometry];  drills : [point, tool];       *)
(* slots : [start, stop, tool].  A geometry primitive records what was     *)
(* buffered: kind "drill" is point.buffer(r), kind "slot" is               *)
(* LineString([start, stop]).buffer(r).                                    *)
(***************************************************************************)
EmptyTool == -1

Prim(kind, a, b, r, tool) == [kind |-> kind, a |-> a, b |-> b, r |-> r, tool |-> tool]

\* index of the first drill whose tools[...] lookup raises KeyError (0: none)
RECURSIVE FirstBadDrill(_, _, _)
FirstBadDrill(tools, drills, i) ==
    IF i > Len(drills) THEN 0
    ELSE IF drills[i].tool # EmptyTool /\ drills[i].tool \notin DOMAIN tools THEN i
    ELSE FirstBadDrill(tools, drills, i + 1)

\* index of the first slot whose tools[...] lookup raises KeyError (0: none)
RECURSIVE FirstBadSlot(_, _, _)
FirstBadSlot(tools, slots, i) ==
    IF i > Len(slots) THEN 0
    ELSE IF slots[i].tool \notin DOMAIN tools THEN i
    ELSE FirstBadSlot(tools, slots, i + 1)

\* the polygons appended by the loop over drills[1..n]
RECURSIVE DrillPolys(_, _, _)
DrillPolys(tools, drills, n) ==
    IF n = 0 THEN <<>>
    ELSE LET d == drills[n]
         IN  IF d.tool = EmptyTool
             THEN DrillPolys(tools, drills, n - 1)
             ELSE Append(DrillPolys(tools, drills, n - 1),
                         Prim("drill", d.point, d.point, RHalf(tools[d.tool].C), d.tool))

\* the polygons appended by the loop over slots[1..n]
RECURSIVE SlotPolys(_, _, _)
SlotPolys(tools, slots, n) ==
    IF n = 0 THEN <<>>
    ELSE LET s == slots[n]
         IN  Append(SlotPolys(tools, slots, n - 1),
                    Prim("slot", s.start, s.stop, RHalf(tools[s.tool].C), s.tool))

OfTool(polys, t) == SelectSeq(polys, LAMBDA p : p.tool = t)

\* a create_geometry that does not clear the per-tool lists
create_geometry_accumulating(doc) ==
    LET bd == FirstBadDrill(doc.tools, doc.drills, 1)
        nd == IF bd = 0 THEN Len(doc.drills) ELSE bd - 1
        bs == FirstBadSlot(doc.tools, doc.slots, 1)
        ns == IF bd # 0 THEN 0 ELSE IF bs = 0 THEN Len(doc.slots) ELSE bs - 1
        polys == DrillPolys(doc.tools, doc.drills, nd) \o SlotPolys(doc.tools, doc.slots, ns)
    IN  [doc EXCEPT !.solid_geometry = polys,
                    !.tools = [t \in DOMAIN doc.tools |->
                                 [C |-> doc.tools[t].C,
                                  solid_geometry |-> doc.tools[t].solid_geometry
                                                        \o OfTool(polys, t)]]]

\* Excellon.create_geometry: the document it leaves
create_geometry(doc) ==
    LET bd == FirstBadDrill(doc.tools, doc.drills, 1)
        nd == IF bd = 0 THEN Len(doc.drills) ELSE bd - 1
        bs == FirstBadSlot(doc.tools, doc.slots, 1)
        ns == IF bd # 0 THEN 0 ELSE IF bs = 0 THEN Len(doc.slots) ELSE bs - 1
        polys == DrillPolys(doc.tools, doc.drills, nd) \o SlotPolys(doc.tools, doc.slots, ns)
    IN  [doc EXCEPT !.solid_geometry = polys,
                    !.tools = [t \in DOMAIN doc.tools |->
                                 [C |-> doc.tools[t].C, solid_geometry |-> OfTool(polys, t)]]]

\* Excellon.create_geometry: its return value
create_geometry_result(doc) ==
    IF FirstBadDrill(doc.tools, doc.drills, 1) # 0 \/ FirstBadSlot(doc.tools, doc.slots, 1) # 0
    THEN "fail" ELSE "None"

\* a scale that does not take the point relative to the origin
ScalePoint_unshifted(p, xf, yf, px, py) ==
    <<RAdd(px, RMul(p[1], xf)), RAdd(py, RMul(p[2], yf))>>

\* shapely.affinity.scale of a point about origin (px, py)
ScalePoint(p, xf, yf, px, py) ==
    <<RAdd(px, RMul(RSub(p[1], px), xf)), RAdd(py, RMul(RSub(p[2], py), yf))>>

\* the points of the Drills and Slots of a document
PointsOf(doc) ==
    {doc.drills[i].point : i \in 1..Len(doc.drills)}
        \cup {doc.slots[i].start : i \in 1..Len(doc.slots)}
        \cup {doc.slots[i].stop : i \in 1..Len(doc.slots)}

\* the loops that replace every point p by F[p]
MapPoints(doc, F) ==
    [doc EXCEPT !.drills = [i \in 1..Len(doc.drills) |->
                              [doc.drills[i] EXCEPT !.point = F[doc.drills[i].point]]],
                !.slots = [i \in 1..Len(doc.slots) |->
                              [doc.slots[i] EXCEPT !.start = F[doc.slots[i].start],
                                                   !.stop = F[doc.slots[i].stop]]]]

\* a scale that also multiplies every tool diameter by xfactor
scale_with_diameters(doc, xfactor, yfactor, px, py) ==
    IF xfactor[1] = 0 /\ yfactor[1] = 0 THEN doc
    ELSE LET d1 == MapPoints(doc, [p \in PointsOf(doc) |->
                                     ScalePoint(p, xfactor, yfactor, px, py)])
         IN  create_geometry([d1 EXCEPT !.tools =
                 [t \in DOMAIN d1.tools |->
                     [d1.tools[t] EXCEPT !.C = RMul(d1.tools[t].C, xfactor)]]])

\* Excellon.scale.  The per-tool polygons rewritten by scale_geom are
\* discarded by the first loop of create_geometry, which ends the method.
scale(doc, xfactor, yfactor, px, py) ==
    IF xfactor[1] = 0 /\ yfactor[1] = 0 THEN doc
    ELSE create_geometry(MapPoints(doc, [p \in PointsOf(doc) |->
                                           ScalePoint(p, xfactor, yfactor, px, py)]))

MM_PER_IN == <<127, 5>>

IN_PER_MM == <<5, 127>>

\* the factor computed at the top of Excellon.convert_units
units_factor(doc, obj_units) ==
    IF obj_units = doc.units THEN RInt(1)
    ELSE IF obj_units = "MM" THEN MM_PER_IN
    ELSE IF obj_units = "IN" THEN IN_PER_MM
    ELSE RInt(1)

\* convert_units without the final call of create_geometry
convert_units_no_rebuild(doc, obj_units) ==
    LET factor == units_factor(doc, obj_units)
        d1 == scale([doc EXCEPT !.units = obj_units], factor, factor, RInt(0), RInt(0))
    IN  [d1 EXCEPT !.tools = [t \in DOMAIN d1.tools |->
                                [d1.tools[t] EXCEPT !.C = RMul(d1.tools[t].C, factor)]]]

\* convert_units without the loop over the tools
convert_units_keeps_diameters(doc, obj_units) ==
    LET factor == units_factor(doc, obj_units)
    IN  scale([doc EXCEPT !.units = obj_units], factor, factor, RInt(0), RInt(0))

\* Excellon.convert_units
convert_units(doc, obj_units) ==
    LET factor == units_factor(doc, obj_units)
        d1 == scale([doc EXCEPT !.units = obj_units], factor, factor, RInt(0), RInt(0))
        d2 == [d1 EXCEPT !.tools = [t \in DOMAIN d1.tools |->
                                      [d1.tools[t] EXCEPT !.C = RMul(d1.tools[t].C, factor)]]]
    IN  create_geometry(d2)

(***************************************************************************)
(* Bounds of the model                                                     *)
(***************************************************************************)
MaxLines == 3

(***************************************************************************)
(* State.  Attributes of the Excellon object, the locals of                *)
(* parse_lines, the application's abort flag and message channel, and the  *)
(* position of the parse.                                                  *)
(***************************************************************************)
VARIABLES
    tools, drills, slots, units, solid_geometry,        \* attributes of self
    zeros, fmt, excellon_units, diameterless,           \* attributes of self
    routing_flag, match_routing_start, match_routing_stop,
    excellon_drills,                                    \* Excellon.defaults['excellon_drills']
    current_tool, in_header, headerless,                \* locals of parse_lines
    current_x, current_y, slot_current_x, slot_current_y,
    name_tool, allegro_warning, line_units_found, line_units,
    repeating_x, repeating_y, repeat,
    slot_start_x, slot_start_y,
    line_num, eline,
    abort_flag, inform,                                 \* self.app.*
    raised,                                             \* the exception that ended the parse
    pc, ret,                                            \* position and return value of parse_lines
    call, n_calls                                       \* the last method called after the parse

vars == <<tools, drills, slots, units, solid_geometry, zeros, fmt, excellon_units,
          diameterless, routing_flag, match_routing_start, match_routing_stop,
          excellon_drills, current_tool, in_header, headerless, current_x, current_y,
          slot_current_x, slot_current_y, name_tool, allegro_warning, line_units_found,
          line_units, repeating_x, repeating_y, repeat, slot_start_x, slot_start_y,
          line_num, eline, abort_flag, inform, raised, pc, ret, call, n_calls>>

\* the whole state as one record, threaded through the handlers
State ==
    [tools |-> tools, drills |-> drills, slots |-> slots, units |-> units,
     solid_geometry |-> solid_geometry, zeros |-> zeros, fmt |-> fmt,
     excellon_units |-> excellon_units, diameterless |-> diameterless,
     routing_flag |-> routing_flag, match_routing_start |-> match_routing_start,
     match_routing_stop |-> match_routing_stop, excellon_drills |-> excellon_drills,
     current_tool |-> current_tool, in_header |-> in_header, headerless |-> headerless,
     current_x |-> current_x, current_y |-> current_y,
     slot_current_x |-> slot_current_x, slot_current_y |-> slot_current_y,
     name_tool |-> name_tool, allegro_warning |-> allegro_warning,
     line_units_found |-> line_units_found, line_units |-> line_units,
     repeating_x |-> repeating_x, repeating_y |-> repeating_y, repeat |-> repeat,
     slot_start_x |-> slot_start_x, slot_start_y |-> slot_start_y,
     line_num |-> line_num, eline |-> eline, abort_flag |-> abort_flag,
     inform |-> inform, raised |-> raised, pc |-> pc, ret |-> ret,
     call |-> call, n_calls |-> n_calls]

Commit(s) ==
    /\ tools' = s.tools /\ drills' = s.drills /\ slots' = s.slots /\ units' = s.units
    /\ solid_geometry' = s.solid_geometry /\ zeros' = s.zeros /\ fmt' = s.fmt
    /\ excellon_units' = s.excellon_units /\ diameterless' = s.diameterless
    /\ routing_flag' = s.routing_flag /\ match_routing_start' = s.match_routing_start
    /\ match_routing_stop' = s.match_routing_stop /\ excellon_drills' = s.excellon_drills
    /\ current_tool' = s.current_tool /\ in_header' = s.in_header
    /\ headerless' = s.headerless /\ current_x' = s.current_x /\ current_y' = s.current_y
    /\ slot_current_x' = s.slot_current_x /\ slot_current_y' = s.slot_current_y
    /\ name_tool' = s.name_tool /\ allegro_warning' = s.allegro_warning
    /\ line_units_found' = s.line_units_found /\ line_units' = s.line_units
    /\ repeating_x' = s.repeating_x /\ repeating_y' = s.repeating_y /\ repeat' = s.repeat
    /\ slot_start_x' = s.slot_start_x /\ slot_start_y' = s.slot_start_y
    /\ line_num' = s.line_num /\ eline' = s.eline /\ abort_flag' = s.abort_flag
    /\ inform' = s.inform /\ raised' = s.raised /\ pc' = s.pc /\ ret' = s.ret
    /\ call' = s.call /\ n_calls' = s.n_calls

(***************************************************************************)
(* Lines.  A line is a record of the fields the patterns of __init__       *)
(* capture from its text:                                                  *)
(*   k   the shape of the text (see the handlers below)                    *)
(*   x, y      coordinate tokens of a coordinate line "X<x>Y<y>", or of    *)
(*             the group left of G85                                       *)
(*   x2, y2    coordinate tokens of the group right of G85                 *)
(*   g   "G00", "G01" or "" : the mode token of a coordinate line          *)
(*   r   the count of R<n> on a coordinate line, -1 when there is none     *)
(*   t, c, fs  digits of T<t>, digits of C<c>, "F" when an F field follows *)
(*   u, z, f   INCH/METRIC, "L"/"T"/"None" and the format of a units line  *)
(***************************************************************************)
Line(k) ==
    [k |-> k, x |-> Absent, y |-> Absent, x2 |-> Absent, y2 |-> Absent, g |-> "",
     r |-> -1, t |-> Absent, c |-> Absent, fs |-> "", u |-> "", z |-> "None", f |-> Absent]

NoLine == Line("")

\* a call of a method of the object: its name, its arguments and the way it
\* ended: "None" or "fail" is the value returned, "factor" stands for the
\* factor convert_units returns, any other value is the exception raised
Call(op, args, out) == [op |-> op, args |-> args, out |-> out]

NoCall == Call("", <<>>, "None")

DefaultFormat == [upper_in |-> 2, lower_in |-> 4, upper_mm |-> 3, lower_mm |-> 3]

Init ==
    /\ tools = <<>> /\ drills = <<>> /\ slots = <<>>
    /\ units \in {"IN", "MM"}
    /\ solid_geometry = <<>>
    /\ zeros \in {"L", "T"}
    /\ fmt = DefaultFormat
    /\ excellon_units \in {"INCH", "METRIC"}
    /\ diameterless = FALSE
    /\ routing_flag = 1
    /\ match_routing_start = "None" /\ match_routing_stop = "None"
    /\ excellon_drills = "unset"
    /\ current_tool = EmptyTool /\ in_header = FALSE /\ headerless = FALSE
    /\ current_x = NoneV /\ current_y = NoneV
    /\ slot_current_x = NoneV /\ slot_current_y = NoneV
    /\ name_tool = 0 /\ allegro_warning = FALSE
    /\ line_units_found = FALSE /\ line_units = ""
    /\ repeating_x = RInt(0) /\ repeating_y = RInt(0) /\ repeat = 0
    /\ slot_start_x = NoneV /\ slot_start_y = NoneV
    /\ line_num = 0 /\ eline = NoLine
    /\ abort_flag = FALSE /\ inform = {}
    /\ raised = "None"
    /\ pc = "parsing" /\ ret = "running"
    /\ call = NoCall /\ n_calls = 0

(***************************************************************************)
(* parse_lines: the head of the loop and the ways out of the method        *)
(***************************************************************************)
\* a line is read: line_num += 1, eline = the stripped line
ReadLine(s, line) == [s EXCEPT !.line_num = @ + 1, !.eline = line]

Read(line) == ReadLine(State, line)

\* "return" inside the loop
Return(s) == [s EXCEPT !.pc = "done", !.ret = "None"]

\* exception exc is raised inside a "try" whose handler is "except Exception: return"
ReturnOn(s, exc) == [Return(s) EXCEPT !.raised = exc]

\* exception exc reaches "except Exception" at the end of parse_lines
Fail(s, exc) ==
    [s EXCEPT !.pc = "done", !.ret = "fail", !.raised = exc,
              !.inform = @ \cup {"internal_error"}]

\* a loop that does not look at the abort flag
CanRead_ignores_abort == pc = "parsing" /\ line_num < MaxLines

CanRead == pc = "parsing" /\ ~abort_flag /\ line_num < MaxLines

\* detect_gcode_re : G20 or G21
GcodeDo(s) == Return([s EXCEPT !.inform = @ \cup {"gcode_mark"}])

GcodeLine ==
    /\ CanRead
    /\ Commit(GcodeDo(Read(Line("G2x"))))

\* hbegin_re : M48
HeaderBeginDo(s) == [s EXCEPT !.in_header = TRUE, !.headerless = FALSE]

HeaderBegin ==
    /\ CanRead
    /\ Commit(HeaderBeginDo(Read(Line("M48"))))

\* allegro_hbegin_re : a comment that contains HEADER
AllegroHeaderBeginDo(s) == [s EXCEPT !.in_header = TRUE, !.allegro_warning = TRUE]

AllegroHeaderBegin ==
    /\ CanRead
    /\ Commit(AllegroHeaderBeginDo(Read(Line(";HEADER"))))

\* tool_units_re : the comment ";Holesize <n>. = <c> ... MILS|MM"
\* line.u is the captured unit name, line.c the captured diameter
HolesizeDo(s, line) ==
    LET first == ~s.line_units_found
        lu == IF first THEN line.u ELSE s.line_units
        s1 == IF first
              THEN convert_units([s EXCEPT !.line_units_found = TRUE, !.line_units = lu],
                                 IF lu = "MILS" THEN "IN" ELSE "MM")
              ELSE s
        n == s.name_tool + 1
        dia == IF lu = "MILS" THEN RMul(FloatLiteral(line.c), <<1, 1000>>)
               ELSE FloatLiteral(line.c)
    IN  [s1 EXCEPT !.name_tool = n,
                   !.tools = [t \in DOMAIN s1.tools \cup {n} |->
                                IF t = n THEN [C |-> dia, solid_geometry |-> <<>>]
                                ELSE s1.tools[t]]]

HolesizeLines ==
    {[Line(";Holesize") EXCEPT !.u = u, !.c = <<"3", "5", ".", "0">>] : u \in {"MILS", "MM"}}

HolesizeComment(lines) ==
    /\ CanRead
    /\ \E line \in lines : Commit(HolesizeDo(Read(line), line))

\* altium_format : the comment ";FILE_FORMAT=u:l" or ";Format:u.l"
\* line.f is "<group(1)>.<group(2)>"
AltiumDo(s, line) ==
    LET u == DigitsValue(PartitionHead(line.f))
        l == DigitsValue(PartitionTail(line.f))
    IN  [s EXCEPT !.fmt = [upper_in |-> u, lower_in |-> l, upper_mm |-> u, lower_mm |-> l]]

AltiumLines == {[Line(";FORMAT") EXCEPT !.f = <<"2", ".", "5">>]}

AltiumFormatComment ==
    /\ CanRead
    /\ \E line \in AltiumLines : Commit(AltiumDo(Read(line), line))

\* comm_re with none of the sub-patterns, and a text that no later pattern
\* matches: the line is logged and has no effect
PlainComment ==
    /\ CanRead
    /\ Commit(Read(Line(";")))

\* hend_re : M95 or %
HeaderEndDo(s) ==
    LET target == IF s.excellon_units = "INCH" THEN "IN" ELSE "MM"
        s1 == IF ~s.in_header \/ DOMAIN s.tools = {}
              THEN convert_units([s EXCEPT !.headerless = TRUE], target)
              ELSE s
    IN  [s1 EXCEPT !.in_header = FALSE,
                   !.name_tool = IF s.allegro_warning THEN 0 ELSE @]

HeaderEnd ==
    /\ CanRead
    /\ Commit(HeaderEndDo(Read(Line("%"))))

\* meas_re : M71 (metric) or M72 (inch); line.u is "MM" or "IN"
MeasDo(s, line) == convert_units([s EXCEPT !.units = line.u], line.u)

MeasLine ==
    /\ CanRead
    /\ \E u \in {"MM", "IN"} :
         LET line == [Line("M7x") EXCEPT !.u = u] IN Commit(MeasDo(Read(line), line))

\* the placeholder diameter of a tool that has no diameter
toolless_diam == RInt(1)

fake_diameter(s, tool) ==
    LET d == RAdd(toolless_diam, Rat(tool - 1, 100))
    IN  IF s.excellon_units = "MM" THEN d ELSE RMul(d, IN_PER_MM)

DefineTool(s, name, diam) ==
    [s EXCEPT !.tools = [t \in DOMAIN s.tools \cup {name} |->
                           IF t = name THEN [C |-> diam, solid_geometry |-> <<>>]
                           ELSE s.tools[t]]]

\* a ToolDo whose header definition keeps the text of the identifier as the
\* key ("01" is not "1"): the text is told apart by the number read from it
\* behind a leading 1
ToolDo_raw_header_key(s, line) ==
    LET id == DigitsValue(line.t)
        raw == IF Head(line.t) = "0" THEN DigitsValue(<<"1">> \o line.t) ELSE id
        hasC == line.c # Absent /\ Len(line.c) > 0
    IN  IF ~s.in_header
        THEN LET s1 == [s EXCEPT !.current_tool = id]
             IN  IF ~s.headerless THEN s1
                 ELSE IF hasC THEN DefineTool(s1, id, FloatLiteral(line.c))
                 ELSE DefineTool([s1 EXCEPT !.diameterless = TRUE,
                                            !.inform = @ \cup {"no_diameter"}],
                                 id, fake_diameter(s1, id))
        ELSE IF line.c = Absent /\ line.fs = "" THEN s
        ELSE IF line.c = Absent THEN Fail(s, "TypeError")
        ELSE IF ~hasC THEN Fail(s, "ValueError")
        ELSE DefineTool(s, raw, FloatLiteral(line.c))

\* a line "T<t>", "T<t>C<c>" or "T<t>F200"
\*   body   : toolsel_re, and toolset_hl_re in headerless mode
\*   header : toolset_re
ToolDo(s, line) ==
    LET id == DigitsValue(line.t)
        hasC == line.c # Absent /\ Len(line.c) > 0
    IN  IF ~s.in_header
        THEN LET s1 == [s EXCEPT !.current_tool = id]
             IN  IF ~s.headerless THEN s1
                 ELSE IF hasC THEN DefineTool(s1, id, FloatLiteral(line.c))
                 ELSE DefineTool([s1 EXCEPT !.diameterless = TRUE,
                                            !.inform = @ \cup {"no_diameter"}],
                                 id, fake_diameter(s1, id))
        ELSE IF line.c = Absent /\ line.fs = "" THEN s          \* toolset_re does not match
        ELSE IF line.c = Absent THEN Fail(s, "TypeError")       \* float(None)
        ELSE IF ~hasC THEN Fail(s, "ValueError")                \* float('')
        ELSE DefineTool(s, id, FloatLiteral(line.c))

T(t, c, fs) == [Line("T") EXCEPT !.t = t, !.c = c, !.fs = fs]

ToolLines ==
    {T(<<"1">>, Absent, ""), T(<<"0", "1">>, <<"0", ".", "8">>, ""), T(<<"2">>, Absent, "F")}

ToolLine(lines) ==
    /\ CanRead
    /\ \E line \in lines : Commit(ToolDo(Read(line), line))

\* a StopDo that counts the Allegro tool and does not select it
StopDo_counts_only(s) ==
    IF ~s.in_header /\ s.allegro_warning
    THEN [s EXCEPT !.name_tool = @ + 1]
    ELSE s

\* absinc_re / stop_re : G90, G91, G04, M09, M06, M00, M30
StopDo(s) ==
    IF ~s.in_header /\ s.allegro_warning
    THEN [s EXCEPT !.name_tool = @ + 1, !.current_tool = s.name_tool + 1]
    ELSE s

StopLine ==
    /\ CanRead
    /\ Commit(StopDo(Read(Line("G90"))))

\* units_re : "INCH|METRIC[,LZ|,TZ][,<format>]", in the header and outside it
\* line.u is INCH or METRIC, line.z is "L", "T" or "None", line.f the format
UnitsDo(s, line) ==
    LET u == IF line.u = "METRIC" THEN "MM" ELSE "IN"
        upper == Len(PartitionHead(line.f))
        lower == Len(PartitionTail(line.f))
        f1 == IF line.f = Absent THEN s.fmt
              ELSE IF u = "MM" THEN [s.fmt EXCEPT !.upper_mm = upper, !.lower_mm = lower]
              ELSE [s.fmt EXCEPT !.upper_in = upper, !.lower_in = lower]
    IN  convert_units([s EXCEPT !.units = u, !.zeros = line.z, !.fmt = f1], u)

Units(u, z, f) == [Line("UNITS") EXCEPT !.u = u, !.z = z, !.f = f]

UnitsLines ==
    {Units("INCH", "T", Absent), Units("METRIC", "None", Absent),
     Units("METRIC", "L", <<"0", "0", ".", "0", "0", "0">>)}

UnitsLine(lines) ==
    /\ CanRead
    /\ \E line \in lines : Commit(UnitsDo(Read(line), line))

\* a line that contains INCH or METRIC but does not start with it:
\* recognised in the header only ("INCH" in eline / "METRIC" in eline)
BareUnitsDo(s, line) ==
    IF s.in_header
    THEN convert_units([s EXCEPT !.line_units = line.u], line.u)
    ELSE s

BareUnitsLine ==
    /\ CanRead
    /\ \E u \in {"IN", "MM"} :
         LET line == [Line("..UNITS") EXCEPT !.u = u] IN Commit(BareUnitsDo(Read(line), line))

\* a line that contains LZ or TZ and matches nothing before: header only
BareZerosDo(s, line) == IF s.in_header THEN [s EXCEPT !.zeros = line.z] ELSE s

BareZerosLine ==
    /\ CanRead
    /\ \E z \in {"LZ"} :
         LET line == [Line("ZEROS") EXCEPT !.z = z] IN Commit(BareZerosDo(Read(line), line))

(***************************************************************************)
(* Coordinate lines "[G00|G01][R<n>]X<x>Y<y>" and slot lines               *)
(* "X<x>Y<y>G85X<x2>Y<y2>" (X before Y, either may be missing).            *)
(***************************************************************************)
Present(tok) == tok # Absent

\* coordsnoperiod_re.search on "X<tx>Y<ty>": the search starts after the last
\* "." of the text, so a token with a period and every token before it are
\* not captured
NoPeriodMatch(tx, ty) ==
    IF ~Present(tx) /\ ~Present(ty) THEN [m |-> FALSE, g1 |-> Absent, g2 |-> Absent]
    ELSE IF Present(ty) /\ HasPeriod(ty) THEN [m |-> FALSE, g1 |-> Absent, g2 |-> Absent]
    ELSE IF Present(tx) /\ HasPeriod(tx)
         THEN [m |-> Present(ty), g1 |-> Absent, g2 |-> ty]
    ELSE [m |-> TRUE, g1 |-> tx, g2 |-> ty]

\* coordsperiod_re.search on "X<tx>Y<ty>": matches at the first X or Y and
\* captures only the tokens that contain a period
PeriodMatch(tx, ty) ==
    [m |-> Present(tx) \/ Present(ty),
     g1 |-> IF Present(tx) /\ HasPeriod(tx) THEN tx ELSE Absent,
     g2 |-> IF Present(ty) /\ HasPeriod(ty) THEN ty ELSE Absent]

\* the decoder of each grammar
Decode(s, tok, period) ==
    IF period THEN FloatLiteral(tok) ELSE parse_number(tok, s.zeros, s.units, s.fmt)

Drill(x, y, tool) == [point |-> <<x, y>>, tool |-> tool]

Slot(x1, y1, x2, y2, tool) == [start |-> <<x1, y1>>, stop |-> <<x2, y2>>, tool |-> tool]

\* the Drills appended by "while repeat > 0"
RepeatDrills(x, y, rx, ry, n, tool) ==
    [i \in 1..n |->
        LET rep == n - i + 1
        IN  Drill(IF Truthy(rx) THEN RAdd(RMul(RInt(rep), x), rx) ELSE x,
                  IF Truthy(ry) THEN RAdd(RMul(RInt(rep), y), ry) ELSE y,
                  tool)]

\* One of the two coordinate blocks of the body, entered with the groups
\* (g1, g2) captured by its pattern.  Result: the state, and whether the block
\* ended the line (continue / exception) or fell through.
CoordBlock(s, line, g1, g2, period) ==
    LET s1 == IF line.r >= 0 THEN [s EXCEPT !.repeat = line.r] ELSE s
        vx == IF Present(g1) THEN Decode(s1, g1, period) ELSE s1.current_x
        vy == IF Present(g2) THEN Decode(s1, g2, period) ELSE s1.current_y
        s2 == IF Present(g1)
              THEN [s1 EXCEPT !.repeating_x = s1.current_x, !.current_x = vx]
              ELSE [s1 EXCEPT !.repeating_x = RInt(0)]
        s3 == IF Present(g2)
              THEN [s2 EXCEPT !.repeating_y = s2.current_y, !.current_y = vy]
              ELSE [s2 EXCEPT !.repeating_y = RInt(0)]
    IN  IF period /\ Present(g1) /\ IsNone(vx)
        THEN [s |-> Fail(s1, "ValueError"), done |-> TRUE]
        ELSE IF period /\ Present(g2) /\ IsNone(vy)
        THEN [s |-> Fail(s2, "ValueError"), done |-> TRUE]
        ELSE IF IsNone(vx) \/ IsNone(vy) THEN [s |-> s3, done |-> TRUE]
        ELSE IF line.g = "G00"
        THEN [s |-> [s3 EXCEPT !.match_routing_start = "G00", !.excellon_drills = "False",
                               !.routing_flag = 0,
                               !.slot_start_x = vx, !.slot_start_y = vy],
              done |-> TRUE]
        ELSE IF s3.routing_flag = 0 /\ line.g = "G01"
        THEN LET s4 == [s3 EXCEPT !.match_routing_stop = "G01", !.excellon_drills = "False",
                                  !.routing_flag = 1]
             IN  [s |-> IF IsNone(s3.slot_start_x) \/ IsNone(s3.slot_start_y)
                        THEN Fail(s4, "TypeError")    \* Point(None, ...) raises
                        ELSE [s4 EXCEPT !.slots = Append(@, Slot(s3.slot_start_x, s3.slot_start_y,
                                                                 vx, vy, s3.current_tool))],
                  done |-> TRUE]
        ELSE IF s3.match_routing_start = "None" /\ s3.match_routing_stop = "None"
        THEN [s |-> IF s3.repeat = 0
                    THEN [s3 EXCEPT !.excellon_drills = "True",
                                    !.drills = Append(@, Drill(vx, vy, s3.current_tool)),
                                    !.repeating_x = RInt(0), !.repeating_y = RInt(0)]
                    ELSE [s3 EXCEPT !.drills = @ \o RepeatDrills(vx, vy, s3.repeating_x,
                                                                 s3.repeating_y, s3.repeat,
                                                                 s3.current_tool),
                                    !.repeat = 0,
                                    !.repeating_x = RInt(0), !.repeating_y = RInt(0)],
              done |-> TRUE]
        ELSE [s |-> s3, done |-> FALSE]

\* a CoordDo whose G01 line leaves the rout open
CoordDo_rout_stays_open(s, line) ==
    IF s.in_header THEN s
    ELSE LET np == NoPeriodMatch(line.x, line.y)
             a == IF np.m THEN CoordBlock(s, line, np.g1, np.g2, FALSE)
                  ELSE [s |-> s, done |-> FALSE]
             pm == PeriodMatch(line.x, line.y)
             b == IF a.done \/ ~pm.m THEN a.s
                  ELSE CoordBlock([a.s EXCEPT !.excellon_drills = "True"],
                                  line, pm.g1, pm.g2, TRUE).s
         IN  [b EXCEPT !.routing_flag = IF s.routing_flag = 0 THEN 0 ELSE @]

\* a CoordDo that forgets the routs met before the line
CoordDo_forgets_routs(s, line) ==
    IF s.in_header THEN s
    ELSE LET s0 == [s EXCEPT !.match_routing_start = "None", !.match_routing_stop = "None"]
             np == NoPeriodMatch(line.x, line.y)
             a == IF np.m THEN CoordBlock(s0, line, np.g1, np.g2, FALSE)
                  ELSE [s |-> s0, done |-> FALSE]
             pm == PeriodMatch(line.x, line.y)
         IN  IF a.done \/ ~pm.m THEN a.s
             ELSE CoordBlock([a.s EXCEPT !.excellon_drills = "True"],
                             line, pm.g1, pm.g2, TRUE).s

\* a CoordDo that does not look at the section the line is in
CoordDo_any_section(s, line) ==
    LET np == NoPeriodMatch(line.x, line.y)
        a == IF np.m THEN CoordBlock(s, line, np.g1, np.g2, FALSE)
             ELSE [s |-> s, done |-> FALSE]
        pm == PeriodMatch(line.x, line.y)
    IN  IF a.done \/ ~pm.m THEN a.s
        ELSE CoordBlock([a.s EXCEPT !.excellon_drills = "True"],
                        line, pm.g1, pm.g2, TRUE).s

\* a coordinate line: ignored in the header; in the body the block "without
\* period" and, when that one does not match or falls through, the block
\* "with period"
CoordDo(s, line) ==
    IF s.in_header THEN s
    ELSE LET np == NoPeriodMatch(line.x, line.y)
             a == IF np.m THEN CoordBlock(s, line, np.g1, np.g2, FALSE)
                  ELSE [s |-> s, done |-> FALSE]
             pm == PeriodMatch(line.x, line.y)
         IN  IF a.done \/ ~pm.m THEN a.s
             ELSE CoordBlock([a.s EXCEPT !.excellon_drills = "True"],
                             line, pm.g1, pm.g2, TRUE).s

\* one "try: ... = decode(group); slot_current = ..." of the slot blocks
\* cur is the sticky slot coordinate; result: the value, the new sticky value,
\* and whether "except Exception: return" was taken
SlotCoord(s, tok, cur, period) ==
    IF ~Present(tok) THEN [v |-> cur, cur |-> cur, ret |-> FALSE]
    ELSE LET v == Decode(s, tok, period)
         IN  [v |-> v, cur |-> v, ret |-> period /\ IsNone(v)]

\* SlotBlock with the stop decoded from the groups left of G85
SlotBlock_stop_from_start(s, ma, mb, period) ==
    LET ax == SlotCoord(s, ma.g1, s.slot_current_x, period)
        ay == SlotCoord(s, ma.g2, s.slot_current_y, period)
        bx == SlotCoord(s, ma.g1, ax.cur, period)
        by == SlotCoord(s, ma.g2, ay.cur, period)
        s1 == [s EXCEPT !.slot_start_x = ax.v, !.slot_current_x = ax.cur]
        s2 == [s1 EXCEPT !.slot_start_y = ay.v, !.slot_current_y = ay.cur]
        s3 == [s2 EXCEPT !.slot_current_x = bx.cur]
        s4 == [s3 EXCEPT !.slot_current_y = by.cur]
    IN  IF ax.ret THEN ReturnOn(s, "ValueError")
        ELSE IF ay.ret THEN ReturnOn(s1, "ValueError")
        ELSE IF ~mb.m THEN ReturnOn(s2, "AttributeError")
        ELSE IF bx.ret THEN ReturnOn(s2, "ValueError")
        ELSE IF by.ret THEN ReturnOn(s3, "ValueError")
        ELSE IF IsNone(ax.v) \/ IsNone(ay.v) \/ IsNone(bx.v) \/ IsNone(by.v) THEN s4
        ELSE [s4 EXCEPT !.slots = Append(@, Slot(ax.v, ay.v, bx.v, by.v, s.current_tool))]

\* One of the two slot blocks, entered with the matches of its pattern on the
\* text left of G85 (ma) and right of G85 (mb)
SlotBlock(s, ma, mb, period) ==
    LET ax == SlotCoord(s, ma.g1, s.slot_current_x, period)
        ay == SlotCoord(s, ma.g2, s.slot_current_y, period)
        bx == SlotCoord(s, mb.g1, ax.cur, period)
        by == SlotCoord(s, mb.g2, ay.cur, period)
        s1 == [s EXCEPT !.slot_start_x = ax.v, !.slot_current_x = ax.cur]
        s2 == [s1 EXCEPT !.slot_start_y = ay.v, !.slot_current_y = ay.cur]
        s3 == [s2 EXCEPT !.slot_current_x = bx.cur]
        s4 == [s3 EXCEPT !.slot_current_y = by.cur]
    IN  IF ax.ret THEN ReturnOn(s, "ValueError")
        ELSE IF ay.ret THEN ReturnOn(s1, "ValueError")
        ELSE IF ~mb.m THEN ReturnOn(s2, "AttributeError")    \* None.group(1)
        ELSE IF bx.ret THEN ReturnOn(s2, "ValueError")
        ELSE IF by.ret THEN ReturnOn(s3, "ValueError")
        ELSE IF IsNone(ax.v) \/ IsNone(ay.v) \/ IsNone(bx.v) \/ IsNone(by.v) THEN s4
        ELSE [s4 EXCEPT !.slots = Append(@, Slot(ax.v, ay.v, bx.v, by.v, s.current_tool))]

\* a SlotDo whose missing coordinates come from the drill position
SlotDo_drill_position(s, line) ==
    IF s.in_header THEN s
    ELSE LET s0 == [s EXCEPT !.excellon_drills = "False",
                             !.slot_current_x = s.current_x,
                             !.slot_current_y = s.current_y]
             na == NoPeriodMatch(line.x, line.y)
             pa == PeriodMatch(line.x, line.y)
         IN  IF na.m THEN SlotBlock(s0, na, NoPeriodMatch(line.x2, line.y2), FALSE)
             ELSE IF pa.m THEN SlotBlock(s0, pa, PeriodMatch(line.x2, line.y2), TRUE)
             ELSE s0

\* slots_re : a line "<coords>G85<coords>", body only
SlotDo(s, line) ==
    IF s.in_header THEN s
    ELSE LET s0 == [s EXCEPT !.excellon_drills = "False"]
             na == NoPeriodMatch(line.x, line.y)
             pa == PeriodMatch(line.x, line.y)
         IN  IF na.m THEN SlotBlock(s0, na, NoPeriodMatch(line.x2, line.y2), FALSE)
             ELSE IF pa.m THEN SlotBlock(s0, pa, PeriodMatch(line.x2, line.y2), TRUE)
             ELSE s0

CoordLine(lines) ==
    /\ CanRead
    /\ \E line \in lines : Commit(CoordDo(Read(line), line))

SlotLine(lines) ==
    /\ CanRead
    /\ \E line \in lines : Commit(SlotDo(Read(line), line))

XY(x, y, g, r) == [Line("XY") EXCEPT !.x = x, !.y = y, !.g = g, !.r = r]

G85(x, y, x2, y2) == [Line("G85") EXCEPT !.x = x, !.y = y, !.x2 = x2, !.y2 = y2]

d1 == <<"1">>

d0 == <<"0">>

d020 == <<"0", "2", "0">>

d1p5 == <<"1", ".", "5">>

d2p5 == <<"2", ".", "5">>

dEmpty == <<>>

CoordLinesBasic ==
    {XY(d1, d020, "", -1), XY(d1p5, d2p5, "", 2), XY(d0, d1, "G00", -1), XY(d1, d020, "G01", -1)}

SlotLinesBasic ==
    {G85(d1, d020, d0, d1), G85(d1, d020, Absent, Absent)}

\* a line no pattern matches ("Line ignored")
IgnoredLine ==
    /\ CanRead
    /\ Commit(Read(Line("other")))

\* self.app.abort_flag is set by the application while the parse runs
SetAbort ==
    /\ pc = "parsing" /\ ~abort_flag
    /\ Commit([State EXCEPT !.abort_flag = TRUE])

\* the flag is found set at the head of the loop: GracefulException is raised
\* inside the try block and reaches "except Exception"
Cancelled ==
    /\ pc = "parsing" /\ abort_flag
    /\ Commit(Fail([State EXCEPT !.eline = Line("next")], "GracefulException"))

\* the for loop is exhausted
EndOfInput ==
    /\ pc = "parsing"
    /\ Commit([State EXCEPT !.pc = "done", !.ret = "None"])

\* Excellon.parse_file, from the return of its call of parse_lines: the call
\* is a statement, so the value s.ret it returns is dropped; nothing reaches
\* "except Exception: return 'fail'", since parse_lines catches every
\* Exception itself; the method ends without a return statement.
parse_file(s) == "None"

\* parse_file(file_obj=lines) returns to its caller
ParseFileReturns ==
    /\ pc = "done" /\ call = NoCall
    /\ Commit([State EXCEPT !.pc = "returned",
                            !.call = Call("parse_file", <<>>, parse_file(State))])

\* A line of the parse of another Excellon document, run by another thread.
\* Its locals and the attributes it writes are those of the other instance;
\* "defaults" is an attribute of the class, so self.defaults['excellon_drills']
\* is the same dict entry for every instance: a G85 line or a G00/G01 line of
\* the other parse stores False in it, a drill line stores True.
OtherDocumentLine ==
    \E v \in {"True", "False"} :
        /\ excellon_drills # v
        /\ Commit([State EXCEPT !.excellon_drills = v])

(***************************************************************************)
(* The methods called on the parsed object: create_geometry and the        *)
(* transformations.  Angles are given in degrees; the model draws them     *)
(* from the angles whose sine, cosine and tangent are integers.            *)
(***************************************************************************)
MaxCalls == 2

CanCall == pc = "done" /\ n_calls < MaxCalls

Called(s, op, args, out) == [s EXCEPT !.call = Call(op, args, out), !.n_calls = @ + 1]

Zero == RInt(0)

Origin == <<Zero, Zero>>

\* point=None
NoPoint == <<NoneV, NoneV>>

\* shapely.affinity.translate
TranslatePoint(p, dx, dy) == <<RAdd(p[1], dx), RAdd(p[2], dy)>>

\* Excellon.offset
offset(doc, dx, dy) ==
    IF dx[1] = 0 /\ dy[1] = 0 THEN doc
    ELSE create_geometry(MapPoints(doc, [p \in PointsOf(doc) |-> TranslatePoint(p, dx, dy)]))

\* Excellon.mirror
mirror(doc, axis, point) ==
    LET xscale == IF axis = "X" THEN RInt(1) ELSE RInt(-1)
        yscale == IF axis = "X" THEN RInt(-1) ELSE RInt(1)
    IN  create_geometry(MapPoints(doc, [p \in PointsOf(doc) |-> ScalePoint(p, xscale, yscale,
                                                             point[1], point[2])]))

Tan(angle) == CASE angle = 0 -> RInt(0) [] angle = 45 -> RInt(1) [] angle = -45 -> RInt(-1)

Cos(angle) == CASE angle = 0 -> 1 [] angle = 90 -> 0 [] angle = 180 -> -1 [] angle = 270 -> 0

Sin(angle) == CASE angle = 0 -> 0 [] angle = 90 -> 1 [] angle = 180 -> 0 [] angle = 270 -> -1

\* shapely.affinity.skew about origin o
SkewPoint(p, ax, ay, o) ==
    <<RAdd(p[1], RMul(Tan(ax), RSub(p[2], o[2]))), RAdd(p[2], RMul(Tan(ay), RSub(p[1], o[1])))>>

\* Excellon.skew
skew(doc, angle_x, angle_y, point) ==
    IF angle_x = 0 /\ angle_y = 0 THEN doc
    ELSE LET o == IF point = NoPoint THEN Origin ELSE point
         IN  create_geometry(MapPoints(doc, [p \in PointsOf(doc) |->
                                                SkewPoint(p, angle_x, angle_y, o)]))

\* shapely.affinity.rotate about origin o
RotatePoint(p, angle, o) ==
    LET dx == RSub(p[1], o[1])
        dy == RSub(p[2], o[2])
        c == RInt(Cos(angle))
        sn == RInt(Sin(angle))
    IN  <<RAdd(o[1], RSub(RMul(dx, c), RMul(dy, sn))),
          RAdd(o[2], RAdd(RMul(dx, sn), RMul(dy, c)))>>

\* Excellon.rotate with point=None: rotate_geom is called with
\* origin='center' on each tool's list of polygons and calls itself without
\* origin on each polygon, which reads (px, py), never assigned on this path:
\* NameError is raised at the first tool whose list is not empty
rotate_raises(doc, angle, point) ==
    /\ angle # 0 /\ point = NoPoint
    /\ \E t \in DOMAIN doc.tools : doc.tools[t].solid_geometry # <<>>

\* a rotate that turns about (0, 0) when no point is given
rotate_about_origin(doc, angle, point) ==
    IF angle = 0 THEN doc
    ELSE LET o == IF point = NoPoint THEN Origin ELSE point
         IN  create_geometry(MapPoints(doc, [p \in PointsOf(doc) |-> RotatePoint(p, angle, o)]))

\* Excellon.rotate : with point=None every point is rotated about
\* origin='center', its own centre; when NameError is raised the Drills have
\* been rotated, the Slots have not, and create_geometry is not reached
rotate(doc, angle, point) ==
    IF angle = 0 THEN doc
    ELSE IF rotate_raises(doc, angle, point)
    THEN [doc EXCEPT !.drills = [i \in 1..Len(doc.drills) |->
                                   [doc.drills[i] EXCEPT !.point = RotatePoint(@, angle, @)]]]
    ELSE IF point = NoPoint
    THEN create_geometry(MapPoints(doc, [p \in PointsOf(doc) |-> RotatePoint(p, angle, p)]))
    ELSE create_geometry(MapPoints(doc, [p \in PointsOf(doc) |-> RotatePoint(p, angle, point)]))

CreateGeometry ==
    /\ CanCall
    /\ Commit(create_geometry(Called(State, "create_geometry", <<>>, create_geometry_result(State))))

ScaleArgs == {<<RInt(2), RInt(2)>>, <<RInt(0), RInt(0)>>}

Scale ==
    /\ CanCall
    /\ \E a \in ScaleArgs :
         Commit(scale(Called(State, "scale", a, "None"), a[1], a[2], Zero, Zero))

\* px, py of scale: (0, 0) when point is None
ScaleOrigin(point) == IF point = NoPoint THEN Origin ELSE point

\* scale(xfactor, yfactor, point) with factors that differ and with a point
ScaleAboutArgs ==
    {<<RInt(2), RInt(3), NoPoint>>, <<Rat(1, 2), Rat(1, 2), <<RInt(1), RInt(1)>>>>,
     <<RInt(0), RInt(0), NoPoint>>}

ScaleAbout ==
    /\ CanCall
    /\ \E a \in ScaleAboutArgs :
         Commit(scale(Called(State, "scale", a, "None"),
                      a[1], a[2], ScaleOrigin(a[3])[1], ScaleOrigin(a[3])[2]))

\* the inverse of a non-zero factor
Inverse(f) == Rat(f[2], f[1])

\* scale(f, point=point), yfactor being None, for non-zero f
ScaleRoundTripArgs ==
    {<<RInt(2), NoPoint>>, <<Rat(1, 2), NoPoint>>, <<RInt(-3), <<RInt(1), RInt(1)>>>>}

\* scale(f, point=point) followed by scale(1/f, point=point)
ScaleRoundTrip ==
    /\ pc = "done" /\ n_calls + 2 <= MaxCalls
    /\ \E a \in ScaleRoundTripArgs :
         LET o == ScaleOrigin(a[2])
             s1 == scale(Called(State, "scale", <<a[1], a[1], a[2]>>, "None"),
                         a[1], a[1], o[1], o[2])
             s2 == scale(Called(s1, "scale", <<Inverse(a[1]), Inverse(a[1]), a[2]>>, "None"),
                         Inverse(a[1]), Inverse(a[1]), o[1], o[2])
         IN  Commit(s2)

\* np.Inf and -np.Inf
PosInf == <<1, 0>>

NegInf == <<-1, 0>>

\* a <= b on the numbers and the two infinities
RLeq(a, b) ==
    IF a[2] = 0 /\ b[2] = 0 THEN a[1] <= b[1] ELSE a[1] * b[2] <= b[1] * a[2]

RMin(a, b) == IF RLeq(a, b) THEN a ELSE b

RMax(a, b) == IF RLeq(a, b) THEN b ELSE a

\* min(...) and max(...) of the numbers of a non-empty set
MinOf(S) == CHOOSE x \in S : \A y \in S : RLeq(x, y)

MaxOf(S) == CHOOSE x \in S : \A y \in S : RLeq(y, x)

\* obj.bounds of the polygon buffered around a point or a segment with
\* radius r > 0: the extreme points of the round ends are vertices of it
PrimBounds(p) ==
    <<RSub(RMin(p.a[1], p.b[1]), p.r), RSub(RMin(p.a[2], p.b[2]), p.r),
      RAdd(RMax(p.a[1], p.b[1]), p.r), RAdd(RMax(p.a[2], p.b[2]), p.r)>>

\* bounds_rec of the list of the first n polygons
RECURSIVE bounds_rec(_, _)
bounds_rec(polys, n) ==
    IF n = 0 THEN <<PosInf, PosInf, NegInf, NegInf>>
    ELSE LET b == bounds_rec(polys, n - 1)
             q == PrimBounds(polys[n])
         IN  <<RMin(b[1], q[1]), RMin(b[2], q[2]), RMax(b[3], q[3]), RMax(b[4], q[4])>>

\* what a call returns (value) or raises
Returned(value) == [raised |-> "None", value |-> value]

Raised(exc) == [raised |-> exc, value |-> <<>>]

\* Excellon.bounds after its first test: min() of an empty list raises
bounds_of_tools(doc) ==
    LET box == [t \in DOMAIN doc.tools |->
                  bounds_rec(doc.tools[t].solid_geometry, Len(doc.tools[t].solid_geometry))]
    IN  IF DOMAIN doc.tools = {} THEN Raised("ValueError")
        ELSE Returned(<<MinOf({box[t][1] : t \in DOMAIN doc.tools}),
                        MinOf({box[t][2] : t \in DOMAIN doc.tools}),
                        MaxOf({box[t][3] : t \in DOMAIN doc.tools}),
                        MaxOf({box[t][4] : t \in DOMAIN doc.tools})>>)

\* a bounds without its first test
bounds_unguarded(doc) == bounds_of_tools(doc)

\* Excellon.bounds.  self.solid_geometry is a list in every state of the
\* model, so the first test is the test of self.tools.
bounds(doc) ==
    IF DOMAIN doc.tools = {} THEN Returned(<<Zero, Zero, Zero, Zero>>)
    ELSE bounds_of_tools(doc)

Bounds ==
    /\ CanCall
    /\ Commit(Called(State, "bounds", <<>>, bounds(State)))

OffsetArgs == {<<RInt(1), RInt(0)>>, <<RInt(0), RInt(0)>>}

Offset ==
    /\ CanCall
    /\ \E a \in OffsetArgs : Commit(offset(Called(State, "offset", a, "None"), a[1], a[2]))

Mirror ==
    /\ CanCall
    /\ \E axis \in {"X"} :
         Commit(mirror(Called(State, "mirror", <<axis>>, "None"), axis, <<RInt(1), RInt(1)>>))

SkewArgs == {<<45, 0>>, <<0, 0>>}

Skew ==
    /\ CanCall
    /\ \E a \in SkewArgs : Commit(skew(Called(State, "skew", a, "None"), a[1], a[2], NoPoint))

RotateArgs == {<<0, NoPoint>>, <<90, NoPoint>>, <<90, <<RInt(1), RInt(0)>>>>}

Rotate ==
    /\ CanCall
    /\ \E a \in RotateArgs :
         LET out == IF rotate_raises(State, a[1], a[2]) THEN "NameError" ELSE "None"
         IN  Commit(rotate(Called(State, "rotate", a, out), a[1], a[2]))

ConvertUnits ==
    /\ CanCall
    /\ \E u \in {"IN", "MM"} :
         Commit(convert_units(Called(State, "convert_units", <<u>>, "factor"), u))

(***************************************************************************)
(* The G-code preprocessor line_xyz.  A number written with "%.*f" is the   *)
(* pair <<n, decimals>>: the text of n / 10^decimals with that many         *)
(* decimals.  The G-code text is the sequence of its lines, each a word     *)
(* and the values written after it.                                        *)
(***************************************************************************)
\* coordinate_format % (decimals, v) : v rounded to the decimals, a tie to
\* the even digit (v is a float that holds its value exactly)
coordinate_format(decimals, v) ==
    LET n == v[1] * Pow10(decimals)
        q == n \div v[2]
        r == n - q * v[2]
    IN  IF 2 * r > v[2] \/ (2 * r = v[2] /\ q % 2 = 1) THEN <<q + 1, decimals>>
        ELSE <<q, decimals>>

Word(w, a) == [w |-> w, a |-> a]

\* line_xyz.toolchange_code : both templates write {x_toolchange} after X and
\* after Y; y_toolchange is passed to format() and never written
toolchange_code(p) ==
    LET x_toolchange == IF p.xy_toolchange # NoPoint THEN p.xy_toolchange[1]
                        ELSE IF p.type = "Excellon" THEN p.oldx
                        ELSE p.x
        z_toolchange == IF p.tool = 1 /\ ~IsNone(p.startz) THEN p.startz ELSE p.z_toolchange
        in_use == {i \in 1..Len(p.Tools_in_use) : p.Tools_in_use[i][1] = p.tool}
        no_drills == IF in_use = {} THEN 1
                     ELSE p.Tools_in_use[CHOOSE i \in in_use : \A j \in in_use : j <= i][3]
        X == coordinate_format(p.coords_decimals, x_toolchange)
        msg == IF p.type = "Excellon"
               THEN <<coordinate_format(p.decimals, p.toolC), p.tool, no_drills>>
               ELSE <<coordinate_format(p.decimals, p.toolC)>>
    IN  <<Word("", <<>>), Word("M5", <<>>),
          Word("G00", <<X, X, coordinate_format(p.coords_decimals, z_toolchange)>>),
          Word("T", <<p.tool>>), Word("M6", <<>>), Word("MSG", msg), Word("M0", <<>>)>>
            \o (IF p.f_plunge
                THEN <<Word("G00", <<X, X, coordinate_format(p.coords_decimals, p.z_move)>>)>>
                ELSE <<>>)

\* the parameters p of a job: an Excellon or a Geometry object, with or
\* without a tool-change position, at (3, 4.5) after (1, 2.25)
PreProcParams ==
    [type : {"Excellon", "Geometry"},
     xy_toolchange : {NoPoint, <<RInt(5), Rat(25, 4)>>},
     oldx : {RInt(1)}, oldy : {Rat(9, 4)}, x : {RInt(3)}, y : {Rat(9, 2)},
     z_toolchange : {RInt(15)}, startz : {NoneV, RInt(7)}, z_move : {RInt(2)},
     f_plunge : BOOLEAN, tool : {1, 2}, toolC : {Rat(4, 5)},
     decimals : {2}, coords_decimals : {1},
     Tools_in_use : {<<<<1, Rat(4, 5), 3>>, <<2, RInt(1), 5>>>>}]

ToolchangeCode ==
    /\ n_calls < MaxCalls
    /\ \E p \in PreProcParams :
         Commit(Called(State, "toolchange_code", <<p>>, Returned(toolchange_code(p))))

(***************************************************************************)
(* Specifications.  Spec is the parser fed with lines of every shape.  The *)
(* other specifications feed it with the lines of one part of the grammar, *)
(* drawn from larger sets of tokens.                                       *)
(***************************************************************************)
Next ==
    \/ GcodeLine \/ HeaderBegin \/ AllegroHeaderBegin
    \/ HolesizeComment(HolesizeLines) \/ AltiumFormatComment \/ PlainComment
    \/ HeaderEnd \/ MeasLine \/ ToolLine(ToolLines) \/ StopLine
    \/ UnitsLine(UnitsLines) \/ BareUnitsLine \/ BareZerosLine \/ IgnoredLine
    \/ CoordLine(CoordLinesBasic) \/ SlotLine(SlotLinesBasic)
    \/ SetAbort \/ Cancelled \/ EndOfInput

Spec == Init /\ [][Next]_vars

\* number formats: units lines, the Altium comment, M71/M72, and coordinate
\* lines whose tokens have a sign, leading zeros, few or many digits
dm5 == <<"-", "5">>

dp010000 == <<"+", "0", "1", "0", "0", "0", "0">>

UnitsLinesDecode ==
    {Units(u, z, Absent) : u \in {"INCH", "METRIC"}, z \in {"L", "T"}}
    \cup {Units("METRIC", "L", <<"0", "0", ".", "0", "0", "0", "0">>),
          Units("INCH", "T", <<"0", "0", "0", ".", "0", "0">>)}

CoordLinesDecode ==
    {XY(d1, d020, "", -1), XY(dm5, dp010000, "", -1), XY(dp010000, d0, "", -1),
     XY(d020, Absent, "", -1)}

NextDecode ==
    \/ UnitsLine(UnitsLinesDecode) \/ AltiumFormatComment \/ MeasLine
    \/ CoordLine(CoordLinesDecode) \/ EndOfInput

SpecDecode == Init /\ [][NextDecode]_vars

\* the body: tool changes, drill hits, repeats, routs and G85 slots
d010000 == <<"0", "1", "0", "0", "0", "0">>

d020000 == <<"0", "2", "0", "0", "0", "0">>

d030000 == <<"0", "3", "0", "0", "0", "0">>

d040000 == <<"0", "4", "0", "0", "0", "0">>

ExampleSlotLine == G85(d010000, d020000, d030000, d040000)

ToolLinesBody == {T(<<"1">>, Absent, ""), T(<<"0", "2">>, Absent, "")}

CoordLinesBody ==
    {XY(d1, d020, "", -1), XY(d0, d1, "", -1),
     XY(d1p5, d020, "", -1), XY(d1, d2p5, "", -1), XY(d1p5, d2p5, "", -1),
     XY(d1, d0, "", 2), XY(d020, Absent, "", 2),
     XY(d0, d1, "G00", -1), XY(d1, d020, "G01", -1)}

SlotLinesBody ==
    {ExampleSlotLine, G85(d1, d020, d0, d1), G85(d1p5, d020, d0, d1),
     G85(d1, d020, Absent, Absent)}

NextBody ==
    \/ ToolLine(ToolLinesBody) \/ CoordLine(CoordLinesBody) \/ SlotLine(SlotLinesBody)
    \/ EndOfInput

SpecBody == Init /\ [][NextBody]_vars

\* comm_re with none of the sub-patterns: the comment block logs the line and
\* does not "continue", so the text behind ";" reaches the patterns that are
\* not anchored at the start of the line: in the header "INCH" / "METRIC" in
\* eline and [LT]Z, in the body slots_re and the two coordinate patterns.
\*   line.u      IN or MM when the text contains INCH or METRIC
\*   line.z      LZ or TZ when the text contains it
\*   line.x ...  the tokens of ";X<x>Y<y>" and ";X<x>Y<y>G85X<x2>Y<y2>"
CommentDo(s, line) ==
    IF s.in_header
    THEN IF line.u # "" THEN BareUnitsDo(s, line)
         ELSE IF line.z # "None" THEN BareZerosDo(s, line)
         ELSE s
    ELSE IF Present(line.x2) \/ Present(line.y2) THEN SlotDo(s, line)
         ELSE IF Present(line.x) \/ Present(line.y) THEN CoordDo(s, line)
         ELSE s

CommentLines ==
    {[Line(";") EXCEPT !.x = d1, !.y = d020],
     [Line(";") EXCEPT !.x = d1, !.y = d020, !.x2 = d0, !.y2 = d1],
     [Line(";") EXCEPT !.u = "IN"], [Line(";") EXCEPT !.u = "MM"],
     [Line(";") EXCEPT !.z = "TZ"], [Line(";") EXCEPT !.z = "LZ"]}

TextComment(lines) ==
    /\ CanRead
    /\ \E line \in lines : Commit(CommentDo(Read(line), line))

NextComment ==
    \/ HeaderBegin \/ HeaderEnd \/ ToolLine(ToolLines) \/ CoordLine(CoordLinesBasic)
    \/ PlainComment \/ TextComment(CommentLines) \/ EndOfInput

SpecComment == Init /\ [][NextComment]_vars

\* sticky positions: coordinate lines with one axis, with both, with a
\* decimal point on one axis and with a repeat count, and G85 lines with and
\* without missing coordinates
CoordLinesSticky ==
    {XY(d1, d020, "", -1), XY(d0, Absent, "", -1), XY(Absent, d1, "", -1),
     XY(d1p5, Absent, "", -1), XY(d1p5, d020, "", -1), XY(d020, Absent, "", 2)}

SlotLinesSticky ==
    {G85(d020, d1, d0, d1), G85(Absent, d1, d020, Absent), G85(d0, Absent, Absent, d1)}

NextSticky ==
    \/ CoordLine(CoordLinesSticky) \/ SlotLine(SlotLinesSticky) \/ EndOfInput

SpecSticky == Init /\ [][NextSticky]_vars

\* a headerless file is parsed, then geometry is built and transformed
ToolLinesGeo == {T(<<"0", "1">>, <<"0", ".", "8">>, "")}

CoordLinesGeo == {XY(d1, d020, "", -1)}

SlotLinesGeo == {G85(d1, d020, d0, d1)}

NextGeo ==
    \/ HeaderEnd \/ ToolLine(ToolLinesGeo) \/ CoordLine(CoordLinesGeo)
    \/ SlotLine(SlotLinesGeo) \/ EndOfInput
    \/ CreateGeometry \/ Scale \/ Offset \/ Mirror \/ Skew \/ Rotate \/ ConvertUnits

SpecGeo == Init /\ [][NextGeo]_vars

\* a headerless file is parsed, then geometry is built, once or more
NextSynth ==
    \/ HeaderEnd \/ ToolLine(ToolLinesGeo) \/ CoordLine(CoordLinesGeo)
    \/ SlotLine(SlotLinesGeo) \/ EndOfInput
    \/ CreateGeometry

SpecSynth == Init /\ [][NextSynth]_vars

\* a headerless file is parsed, then geometry is built and measured
NextBounds ==
    \/ HeaderEnd \/ ToolLine(ToolLinesGeo) \/ CoordLine(CoordLinesGeo)
    \/ SlotLine(SlotLinesGeo) \/ EndOfInput
    \/ CreateGeometry \/ Bounds

SpecBounds == Init /\ [][NextBounds]_vars

\* tools are defined and selected with and without leading zeros, in a
\* header and in a body
ToolLinesZeros ==
    {T(<<"1">>, Absent, ""), T(<<"0", "0", "1">>, Absent, ""),
     T(<<"0", "1">>, <<"0", ".", "8">>, ""), T(<<"0", "2">>, <<"0", ".", "8">>, ""),
     T(<<"2">>, Absent, "")}

NextTools ==
    \/ HeaderBegin \/ HeaderEnd \/ ToolLine(ToolLinesZeros) \/ CoordLine(CoordLinesGeo)
    \/ EndOfInput

SpecTools == Init /\ [][NextTools]_vars

\* tool definitions with a diameter, with the diameter 0, with "C" and no
\* digits, with an F field only and with the number only
ToolLinesDiam ==
    {T(<<"1">>, Absent, ""), T(<<"1">>, <<"0">>, ""), T(<<"1">>, <<>>, ""),
     T(<<"0", "1">>, <<"0", ".", "8">>, ""), T(<<"2">>, Absent, "F")}

NextDiam ==
    \/ HeaderBegin \/ HeaderEnd \/ ToolLine(ToolLinesDiam) \/ EndOfInput

SpecDiam == Init /\ [][NextDiam]_vars

\* an Allegro file: the ;HEADER comment, Holesize entries, the header end,
\* stop commands and coordinate lines
NextAllegro ==
    \/ AllegroHeaderBegin \/ HolesizeComment(HolesizeLines) \/ HeaderEnd \/ StopLine
    \/ CoordLine(CoordLinesBasic) \/ EndOfInput

SpecAllegro == Init /\ [][NextAllegro]_vars

\* routs: G00 lines with both axes and with one, G01 lines, and coordinate
\* lines with neither
CoordLinesRout ==
    {XY(d0, d1, "G00", -1), XY(d1, Absent, "G00", -1), XY(d1, d020, "G01", -1),
     XY(d1p5, d2p5, "G01", -1), XY(d020, d1, "", -1), XY(Absent, d0, "", -1)}

NextRout ==
    \/ ToolLine(ToolLinesBody) \/ CoordLine(CoordLinesRout) \/ EndOfInput

SpecRout == Init /\ [][NextRout]_vars

\* the preprocessor is asked for tool-change code
NextPreProc == ToolchangeCode

SpecPreProc == Init /\ [][NextPreProc]_vars

\* parse_file is called on the lines of a file
NextFile ==
    \/ HeaderBegin \/ ToolLine(ToolLines) \/ CoordLine(CoordLinesBasic)
    \/ EndOfInput \/ ParseFileReturns

SpecFile == Init /\ [][NextFile]_vars

\* a headerless file is parsed, then scaled
NextScale ==
    \/ HeaderEnd \/ ToolLine(ToolLinesGeo) \/ CoordLine(CoordLinesGeo)
    \/ SlotLine(SlotLinesGeo) \/ EndOfInput
    \/ ScaleAbout \/ ScaleRoundTrip

SpecScale == Init /\ [][NextScale]_vars

\* a body is parsed while another document is parsed by another thread
NextTwo ==
    \/ ToolLine(ToolLinesBody) \/ CoordLine(CoordLinesBasic) \/ SlotLine(SlotLinesBasic)
    \/ EndOfInput \/ OtherDocumentLine

SpecTwo == Init /\ [][NextTwo]_vars

(***************************************************************************)
(* Properties                                                              *)
(***************************************************************************)
\* the value of a signed digit string, read from the left
RECURSIVE Horner(_, _)
Horner(s, acc) == IF s = <<>> THEN acc ELSE Horner(Tail(s), 10 * acc + DigitVal(Head(s)))

IntOf(d) ==
    IF d[1] = "-" THEN -Horner(Tail(d), 0)
    ELSE IF d[1] = "+" THEN Horner(Tail(d), 0)
    ELSE Horner(d, 0)

DigitCount(d) == Cardinality({i \in 1..Len(d) : d[i] \in DigitChars})

\* n / 10^k
Quotient(n, k) == IF k >= 0 THEN Rat(n, Pow10(k)) ELSE RInt(n * Pow10(-k))

\* a token of digits, with an optional sign and no decimal point
ImplicitToken(tok) == tok # Absent /\ ~HasPeriod(tok) /\ DigitCount(tok) > 0

UpperDigits == IF units = "IN" THEN fmt.upper_in ELSE fmt.upper_mm

LowerDigits == IF units = "IN" THEN fmt.lower_in ELSE fmt.lower_mm

\* the last line read is a coordinate line of the body made of implicit tokens
ImplicitCoordLine ==
    /\ eline.k = "XY" /\ ~in_header
    /\ eline.x = Absent \/ ImplicitToken(eline.x)
    /\ eline.y = Absent \/ ImplicitToken(eline.y)

\* C1: a line G20 or G21 stops the parse with an outcome that differs from
\* the outcome of a successful parse (which returns None); when it is the
\* first line the document has no tools, no drills and no slots.
C1_GcodeMarkRejected ==
    (pc = "done" /\ eline.k = "G2x") =>
        /\ ret # "None"
        /\ line_num = 1 => (DOMAIN tools = {} /\ drills = <<>> /\ slots = <<>>)

\* C2: under leading-zero suppression a digit string d of L digits (sign not
\* counted) decodes to int(d) / 10^(L - u), u the upper digit count of the
\* format of the current units: the position after a coordinate line is that
\* value on each axis the line gives.
C2_LeadingZeroDecode ==
    (ImplicitCoordLine /\ zeros \in {"L", "LZ"}) =>
        /\ eline.x # Absent =>
             current_x = Quotient(IntOf(eline.x), DigitCount(eline.x) - UpperDigits)
        /\ eline.y # Absent =>
             current_y = Quotient(IntOf(eline.y), DigitCount(eline.y) - UpperDigits)

\* X+010000 under METRIC,LZ,00.0000 is 10000 / 10^(6 - 2) = 1 and
\* Y0 is 0 / 10^(1 - 2) = 0
C2_Witness ==
    /\ ImplicitCoordLine /\ zeros = "L" /\ units = "MM" /\ fmt.upper_mm = 2
    /\ eline.x = dp010000 /\ eline.y = d0
    /\ current_x = RInt(1) /\ current_y = RInt(0)

\* C3: under trailing-zero suppression a digit string d decodes to
\* int(d) / 10^l, l the lower digit count of the format of the current units,
\* whatever the number of digits of d.
C3_TrailingZeroDecode ==
    (ImplicitCoordLine /\ zeros \in {"T", "TZ"}) =>
        /\ eline.x # Absent => current_x = Quotient(IntOf(eline.x), LowerDigits)
        /\ eline.y # Absent => current_y = Quotient(IntOf(eline.y), LowerDigits)

\* X-5Y+010000 under INCH,TZ,000.00 is -5 / 10^2 and 10000 / 10^2
C3_Witness ==
    /\ ImplicitCoordLine /\ zeros = "T" /\ units = "IN" /\ fmt.lower_in = 2
    /\ eline.x = dm5 /\ eline.y = dp010000
    /\ current_x = <<-1, 20>> /\ current_y = RInt(100)

\* int(d) / 10^(L - u) or int(d) / 10^l, by the zero mode in force
Implicit(tok) ==
    IF zeros \in {"L", "LZ"}
    THEN Quotient(IntOf(tok), DigitCount(tok) - UpperDigits)
    ELSE Quotient(IntOf(tok), LowerDigits)

ExplicitToken(tok) == tok # Absent /\ HasPeriod(tok)

Last(seq) == seq[Len(seq)]

\* C4: a token with an explicit decimal point is decoded as its literal
\* value on every coordinate line and every G85 line it appears in, also when
\* the other token of the line has no decimal point: after a coordinate line
\* the position has the literal value on that axis, and a G85 line appends a
\* Slot that has the literal value at that place.
C4_ExplicitDecimalLiteral ==
    /\ (eline.k = "XY" /\ ~in_header /\ raised = "None") =>
          /\ ExplicitToken(eline.x) => current_x = FloatLiteral(eline.x)
          /\ ExplicitToken(eline.y) => current_y = FloatLiteral(eline.y)
    /\ (eline.k = "G85" /\ ~in_header /\ raised = "None"
          /\ eline.x # Absent /\ eline.y # Absent /\ eline.x2 # Absent /\ eline.y2 # Absent) =>
          /\ ExplicitToken(eline.x) =>
                slots # <<>> /\ Last(slots).start[1] = FloatLiteral(eline.x)
          /\ ExplicitToken(eline.y) =>
                slots # <<>> /\ Last(slots).start[2] = FloatLiteral(eline.y)
          /\ ExplicitToken(eline.x2) =>
                slots # <<>> /\ Last(slots).stop[1] = FloatLiteral(eline.x2)
          /\ ExplicitToken(eline.y2) =>
                slots # <<>> /\ Last(slots).stop[2] = FloatLiteral(eline.y2)

\* a line is read by this step
ReadsLine == line_num' = line_num + 1

\* this step reads a coordinate line of the body made of implicit tokens
ReadsImplicitCoordLine ==
    /\ ReadsLine /\ ~in_header /\ eline'.k = "XY"
    /\ eline'.x = Absent \/ ImplicitToken(eline'.x)
    /\ eline'.y = Absent \/ ImplicitToken(eline'.y)

\* base + k * step on an axis that carries a step, base on an axis that does not
Stepped(base, tok, k) ==
    IF tok = Absent THEN base ELSE RAdd(base, RMul(RInt(k), Implicit(tok)))

\* C5: a coordinate line with R<n>, n > 0, read in drill mode at a known
\* position appends exactly n Drills, at base + k * step for k = n, ..., 1 in
\* that order, for every base position.
C5_RepeatDrills ==
    [][(/\ ReadsImplicitCoordLine /\ eline'.r > 0 /\ eline'.g = ""
        /\ match_routing_start = "None" /\ match_routing_stop = "None"
        /\ ~IsNone(current_x) /\ ~IsNone(current_y))
       => drills' = drills \o
            [i \in 1..eline'.r |->
                Drill(Stepped(current_x, eline'.x, eline'.r - i + 1),
                      Stepped(current_y, eline'.y, eline'.r - i + 1),
                      current_tool)]]_vars

\* C6: a G00 line opens a rout at its point and appends nothing; the start
\* recorded for the open rout is that point until a G01 line closes it, and
\* the G01 line appends exactly one Slot from it to the G01 line's point with
\* the current tool; the end of the input appends nothing.
C6_RoutSlot ==
    [][/\ (ReadsImplicitCoordLine /\ eline'.g = "G00"
             /\ ~IsNone(current_x') /\ ~IsNone(current_y')) =>
             /\ slots' = slots /\ routing_flag' = 0
             /\ slot_start_x' = current_x' /\ slot_start_y' = current_y'
       /\ (ReadsLine /\ routing_flag = 0 /\ ~(eline'.k = "XY" /\ eline'.g \in {"G00", "G01"})) =>
             /\ slot_start_x' = slot_start_x /\ slot_start_y' = slot_start_y
       /\ (ReadsImplicitCoordLine /\ eline'.g = "G01" /\ routing_flag = 0
             /\ ~IsNone(current_x') /\ ~IsNone(current_y')) =>
             slots' = Append(slots, Slot(slot_start_x, slot_start_y,
                                         current_x', current_y', current_tool))
       /\ (pc = "parsing" /\ pc' = "done" /\ ~ReadsLine) => slots' = slots]_vars

AllImplicit(line) ==
    /\ ImplicitToken(line.x) /\ ImplicitToken(line.y)
    /\ ImplicitToken(line.x2) /\ ImplicitToken(line.y2)

\* C7: a body line <coords>G85<coords> of implicit tokens appends one Slot,
\* its start decoded from the tokens left of G85 and its stop from the tokens
\* right of G85 with the current zero mode and format, and the parse goes on;
\* X010000Y020000G85X030000Y040000 under metric 3.3 with leading
\* suppression gives the Slot from (10, 20) to (30, 40).
C7_SlotLine ==
    [][(ReadsLine /\ ~in_header /\ eline'.k = "G85" /\ AllImplicit(eline')) =>
         /\ slots' = Append(slots, Slot(Implicit(eline'.x), Implicit(eline'.y),
                                        Implicit(eline'.x2), Implicit(eline'.y2),
                                        current_tool))
         /\ pc' = "parsing"
         /\ (eline' = ExampleSlotLine /\ units = "MM" /\ zeros = "L" /\ fmt = DefaultFormat) =>
               /\ Last(slots').start = <<RInt(10), RInt(20)>>
               /\ Last(slots').stop = <<RInt(30), RInt(40)>>]_vars

C7_Witness ==
    /\ eline = ExampleSlotLine /\ ~in_header /\ units = "MM" /\ zeros = "L"
    /\ fmt = DefaultFormat /\ current_tool = 2 /\ Len(slots) = 2
    /\ Last(slots) = Slot(RInt(10), RInt(20), RInt(30), RInt(40), 2)

\* the primitive of each Drill of ds / each Slot of ss, with the radius of its tool
DrillPrims(ds) ==
    [i \in 1..Len(ds) |->
        Prim("drill", ds[i].point, ds[i].point, RHalf(tools[ds[i].tool].C), ds[i].tool)]

SlotPrims(ss) ==
    [i \in 1..Len(ss) |->
        Prim("slot", ss[i].start, ss[i].stop, RHalf(tools[ss[i].tool].C), ss[i].tool)]

\* one primitive per Drill and per Slot that references tool t
ExpectedGeometry(t) ==
    DrillPrims(SelectSeq(drills, LAMBDA d : d.tool = t))
        \o SlotPrims(SelectSeq(slots, LAMBDA x : x.tool = t))

Fresh == \A t \in DOMAIN tools : tools[t].solid_geometry = ExpectedGeometry(t)

AllResolve ==
    /\ \A i \in 1..Len(drills) : drills[i].tool \in DOMAIN tools
    /\ \A i \in 1..Len(slots) : slots[i].tool \in DOMAIN tools

\* C8: create_geometry never fails on a tool reference that is empty or
\* unresolved: it returns None, and every tool of the table has the geometry
\* of every Drill and Slot that references it.
C8_SkipsUnresolved ==
    call.op = "create_geometry" => (call.out = "None" /\ Fresh)

Transforms == {"scale", "offset", "mirror", "skew", "rotate", "convert_units"}

\* the calls that return before they change anything
ReturnsEarly(c) ==
    \/ c.op \in {"scale", "offset"} /\ c.args[1][1] = 0 /\ c.args[2][1] = 0
    \/ c.op = "skew" /\ c.args[1] = 0 /\ c.args[2] = 0
    \/ c.op = "rotate" /\ c.args[1] = 0

\* the calls that do not reach their final create_geometry
NoRebuild(c) == ReturnsEarly(c) \/ c.out = "NameError"

C10_FailureReported ==
    raised # "None" => (pc = "done" /\ ret = "fail" /\ "internal_error" \in inform)

\* C11: a line whose features cannot be built does not end the parse: a body
\* line <coords>G85 with nothing right of G85 is ignored (the document is as
\* it was) and the next line is read.
C11_UndecodableLineIgnored ==
    [][(ReadsLine /\ eline'.k = "G85" /\ eline'.x2 = Absent /\ eline'.y2 = Absent) =>
         /\ pc' = "parsing"
         /\ UNCHANGED <<tools, drills, slots, units, fmt>>]_vars

\* C12: once the abort flag is set, no further line is applied: the lines
\* read before stay applied, and the step taken at the next line leaves
\* tools, drills, slots, units, zero mode and format as they are and reads
\* no line.
C12_AbortBeforeLine ==
    [][(abort_flag /\ pc = "parsing") =>
         /\ UNCHANGED <<tools, drills, slots, units, zeros, fmt, line_num>>
         /\ pc' = "done"]_vars

\* the flag was set after two lines, of which one gave a Drill
C12_Witness ==
    /\ abort_flag /\ pc = "done" /\ raised = "GracefulException"
    /\ line_num = 2 /\ Len(drills) = 1 /\ current_tool = 1

\* C13: a parse ended by the abort flag has an outcome of its own: it does
\* not return the failure value and does not report an internal error.
C13_CancelledNotInternalError ==
    raised = "GracefulException" => (ret # "fail" /\ "internal_error" \notin inform)

\* C14: no line of a parse writes state that another document can see: a
\* line read by this parse leaves the class-level defaults as they are, and
\* so does a line read by the parse of another document.
C14_NoSharedWrites ==
    [][(ReadsLine \/ OtherDocumentLine) => UNCHANGED excellon_drills]_vars

\* the product of both coordinates of point p by f
Times(p, f) == <<RMul(p[1], f), RMul(p[2], f)>>

\* this step is a call of method op
Calls(op) == n_calls' = n_calls + 1 /\ call'.op = op

\* C15: convert_units(target) multiplies every Drill point, every Slot
\* endpoint and every tool diameter once by the same factor, 25.4 from inch
\* to metric, 1/25.4 from metric to inch and 1 when target is the current
\* units, and sets the units to target.
C15_ConvertUnits ==
    [][Calls("convert_units") =>
         LET target == call'.args[1]
             f == IF target = units THEN RInt(1)
                  ELSE IF target = "MM" THEN Rat(254, 10) ELSE Rat(10, 254)
         IN  /\ units' = target
             /\ drills' = [i \in 1..Len(drills) |->
                             [point |-> Times(drills[i].point, f), tool |-> drills[i].tool]]
             /\ slots' = [i \in 1..Len(slots) |->
                            [start |-> Times(slots[i].start, f),
                             stop |-> Times(slots[i].stop, f), tool |-> slots[i].tool]]
             /\ DOMAIN tools' = DOMAIN tools
             /\ \A t \in DOMAIN tools : tools'[t].C = RMul(tools[t].C, f)]_vars

\* a document with a Slot and tool 1 of 0.8 inch, converted to metric
C15_Witness ==
    /\ call.op = "convert_units" /\ call.args = <<"MM">> /\ n_calls = 1 /\ units = "MM"
    /\ Len(slots) = 1 /\ Last(slots).tool = 1
    /\ 1 \in DOMAIN tools /\ tools[1].C = Rat(2032, 100)

\* point p scaled by (xf, yf) about o
About(p, xf, yf, o) ==
    <<RAdd(o[1], RMul(RSub(p[1], o[1]), xf)), RAdd(o[2], RMul(RSub(p[2], o[2]), yf))>>

\* C16 as claimed: scale(xfactor, yfactor) multiplies every tool diameter by
\* xfactor.
C16_ScalesDiameters ==
    [][Calls("scale") =>
         \A t \in DOMAIN tools : tools'[t].C = RMul(tools[t].C, call'.args[1])]_vars

\* C16: scale(xfactor, yfactor, point) leaves every tool diameter as it is;
\* with both factors 0 it changes nothing; otherwise every Drill point and
\* Slot endpoint is scaled by (xfactor, yfactor) about the point, and the
\* geometry of a document whose tool references resolve is rebuilt from the
\* scaled points and the unchanged diameters.
C16_ScaleKeepsDiameters ==
    [][Calls("scale") =>
         LET xf == call'.args[1]
             yf == call'.args[2]
             o == IF call'.args[3] = NoPoint THEN <<RInt(0), RInt(0)>> ELSE call'.args[3]
         IN  /\ DOMAIN tools' = DOMAIN tools
             /\ \A t \in DOMAIN tools : tools'[t].C = tools[t].C
             /\ (xf[1] = 0 /\ yf[1] = 0) =>
                    UNCHANGED <<tools, drills, slots, solid_geometry, units>>
             /\ ~(xf[1] = 0 /\ yf[1] = 0) =>
                    /\ drills' = [i \in 1..Len(drills) |->
                                    [point |-> About(drills[i].point, xf, yf, o),
                                     tool |-> drills[i].tool]]
                    /\ slots' = [i \in 1..Len(slots) |->
                                   [start |-> About(slots[i].start, xf, yf, o),
                                    stop |-> About(slots[i].stop, xf, yf, o),
                                    tool |-> slots[i].tool]]
                    /\ AllResolve => Fresh']_vars

\* tool 1 of diameter 0.8 keeps it, and its Slot is rebuilt with radius 0.4,
\* after scale(2, 3)
C16_Witness ==
    /\ call.op = "scale" /\ call.args = <<RInt(2), RInt(3), NoPoint>> /\ n_calls = 1
    /\ 1 \in DOMAIN tools /\ tools[1].C = Rat(8, 10)
    /\ Len(slots) = 1 /\ Len(tools[1].solid_geometry) = 1
    /\ tools[1].solid_geometry[1].r = Rat(4, 10)
    /\ slots[1].start = <<RInt(20), RInt(6)>>

\* C17: scale(f) followed by scale(1/f), f # 0, about the same point, gives
\* back the coordinates of every Drill and Slot endpoint and the diameter of
\* every tool.
C17_ScaleRoundTrip ==
    [][(n_calls' = n_calls + 2 /\ call'.op = "scale") =>
         /\ drills' = drills /\ slots' = slots
         /\ DOMAIN tools' = DOMAIN tools
         /\ \A t \in DOMAIN tools : tools'[t].C = tools[t].C]_vars

\* scale(-3) then scale(-1/3) about (1, 1) of a document with a Slot from (10, 2)
C17_Witness ==
    /\ n_calls = 2 /\ call.op = "scale"
    /\ call.args = <<Rat(-1, 3), Rat(-1, 3), <<RInt(1), RInt(1)>>>>
    /\ Len(slots) = 1 /\ slots[1].start = <<RInt(10), RInt(2)>>
    /\ 1 \in DOMAIN tools /\ tools[1].C = Rat(8, 10)
    /\ Len(tools[1].solid_geometry) = 1

\* C18: a second create_geometry, called right after a first one, leaves
\* the aggregate solid_geometry and every tool's solid_geometry as the first
\* call left them, and returns what the first call returned.
C18_CreateGeometryIdempotent ==
    [][(call.op = "create_geometry" /\ Calls("create_geometry")) =>
         /\ UNCHANGED <<solid_geometry, tools, drills, slots>>
         /\ call'.out = call.out]_vars

\* tool 1 has its one Slot once after two calls
C18_Witness ==
    /\ n_calls = 2 /\ call.op = "create_geometry" /\ call.out = "None"
    /\ Len(slots) = 1 /\ 1 \in DOMAIN tools
    /\ Len(tools[1].solid_geometry) = 1 /\ Len(solid_geometry) = 1

\* C19: bounds() of a document with no tools returns (0, 0, 0, 0).
C19_BoundsNoTools ==
    (call.op = "bounds" /\ DOMAIN tools = {}) =>
        call.out = [raised |-> "None", value |-> <<RInt(0), RInt(0), RInt(0), RInt(0)>>]

\* a document with a Drill and a Slot and no tool, after create_geometry
C19_Witness ==
    /\ call.op = "bounds" /\ n_calls = 2 /\ DOMAIN tools = {}
    /\ Len(drills) = 1 /\ Len(slots) = 1
    /\ call.out.value = <<RInt(0), RInt(0), RInt(0), RInt(0)>>

\* the digits of d without its leading zeros
RECURSIVE StripZeros(_)
StripZeros(d) == IF Len(d) > 1 /\ Head(d) = "0" THEN StripZeros(Tail(d)) ELSE d

C21_ParseFileReportsFailure ==
    (call.op = "parse_file" /\ ret = "fail") => call.out = "fail"

\* the lines that name a unit system
UnitsKinds == {"M7x", "UNITS", "..UNITS", ";Holesize"}

\* C22: a line of the parse keeps every Drill and Slot appended so far, in
\* its place and with its tool reference; unless the line names a unit
\* system it keeps their coordinates; and a header end read when no header
\* is open keeps every coordinate and every tool diameter.
C22_FeaturesImmutable ==
    [][ReadsLine =>
         /\ Len(drills') >= Len(drills) /\ Len(slots') >= Len(slots)
         /\ \A i \in 1..Len(drills) :
              /\ drills'[i].tool = drills[i].tool
              /\ eline'.k \notin UnitsKinds => drills'[i].point = drills[i].point
         /\ \A i \in 1..Len(slots) :
              /\ slots'[i].tool = slots[i].tool
              /\ eline'.k \notin UnitsKinds =>
                    (slots'[i].start = slots[i].start /\ slots'[i].stop = slots[i].stop)
         /\ (eline'.k = "%" /\ ~in_header) =>
              \A t \in DOMAIN tools : t \in DOMAIN tools' /\ tools'[t].C = tools[t].C]_vars

\* the unit system named by the excellon_units default
DefaultUnits == IF excellon_units = "INCH" THEN "IN" ELSE "MM"

\* C23: a header-end line that closes an open header, or that is read when
\* a tool is defined, does not set the headerless flag and does not change
\* the units; read with no header open and no tool defined, it sets the flag
\* and the units become those of the default unit system.
C23_HeaderlessFallback ==
    [][(ReadsLine /\ eline'.k = "%") =>
         /\ (in_header \/ DOMAIN tools # {}) =>
                (headerless' = headerless /\ units' = units)
         /\ (~in_header /\ DOMAIN tools = {}) =>
                (headerless' /\ units' = DefaultUnits)
         /\ ~in_header']_vars

\* this line names a zero-suppression mode
NamesZeroMode(line) ==
    \/ line.k = "UNITS" /\ line.z \in {"L", "T"}
    \/ line.k = "ZEROS"

\* the mode with which parse_number decodes under self.zeros = z
ModeInForce(z) == IF z \in {"L", "LZ"} THEN "leading" ELSE "trailing"

\* C24: a line that names no zero mode leaves the mode in force, the one
\* coordinates are decoded with, as it is (a units line without ,LZ / ,TZ
\* among them); a units line with ,LZ or ,TZ and a bare LZ in the header
\* set it to the mode they name.
C24_ZeroMode ==
    [][ReadsLine =>
         /\ ~NamesZeroMode(eline') => ModeInForce(zeros') = ModeInForce(zeros)
         /\ (eline'.k = "UNITS" /\ eline'.z = "L") => ModeInForce(zeros') = "leading"
         /\ (eline'.k = "UNITS" /\ eline'.z = "T") => ModeInForce(zeros') = "trailing"
         /\ (eline'.k = "ZEROS" /\ in_header /\ eline'.z = "LZ") =>
                ModeInForce(zeros') = "leading"]_vars

\* C25: an M71 (M72) line read in the header or in the body makes the units
\* metric (inch); the units stay so until a line that names a unit system is
\* read, and every implicit coordinate is decoded with the format of the
\* units.
C25_MeasUnits ==
    /\ [][ReadsLine =>
            /\ eline'.k = "M7x" => (units' = eline'.u /\ pc' = "parsing")
            /\ eline'.k \notin UnitsKinds => units' = units]_vars
    /\ [](ImplicitCoordLine =>
            /\ eline.x # Absent => current_x = Implicit(eline.x)
            /\ eline.y # Absent => current_y = Implicit(eline.y))

\* the current tool after a line: the number of a T line of the body, the
\* next Allegro number after a stop line of an Allegro body, else unchanged
ToolAfter ==
    IF eline'.k = "T" /\ ~in_header THEN DigitsValue(eline'.t)
    ELSE IF eline'.k = "G90" /\ ~in_header /\ allegro_warning THEN name_tool + 1
    ELSE current_tool

\* C26: the current tool is empty before the first line, is set by every
\* tool change of the body (a T line, an Allegro stop line) to the normalized
\* number and is kept by every other line; every Drill and every Slot a line
\* appends carries the current tool, the empty one included.
C26_ToolReference ==
    /\ [](line_num = 0 => current_tool = EmptyTool)
    /\ [][ReadsLine =>
            /\ current_tool' = ToolAfter
            /\ \A i \in (Len(drills) + 1)..Len(drills') : drills'[i].tool = current_tool
            /\ \A i \in (Len(slots) + 1)..Len(slots') : slots'[i].tool = current_tool]_vars

\* a Drill of a selected tool and a Drill with the empty reference
C26_Witness ==
    /\ Len(drills) = 2
    /\ drills[1].tool = EmptyTool
    /\ drills[2].tool = current_tool /\ current_tool # EmptyTool

\* the value a coordinate token spells: the literal when it has a decimal
\* point, else the implicit decoding
TokenValue(tok) == IF HasPeriod(tok) THEN FloatLiteral(tok) ELSE Implicit(tok)

\* the position a coordinate line names on an axis: the value of its token,
\* or the sticky value when the line has no token for the axis
AxisValue(tok, cur) == IF tok = Absent THEN cur ELSE TokenValue(tok)

\* C27: a coordinate line of the body sets the position on every axis it
\* carries and keeps it on the other, and no other line changes the
\* position; a line with one axis, no repeat count and no G00 / G01, read in
\* drill mode, appends one Drill at the value of its token and the position
\* kept for the other axis, and appends nothing and goes on when that
\* position is unknown.
C27_StickyAxis ==
    [][ReadsLine =>
         IF eline'.k = "XY" /\ ~in_header
         THEN /\ current_x' = AxisValue(eline'.x, current_x)
              /\ current_y' = AxisValue(eline'.y, current_y)
              /\ ( /\ (eline'.x = Absent) # (eline'.y = Absent)
                   /\ eline'.r < 0 /\ eline'.g = ""
                   /\ match_routing_start = "None" /\ match_routing_stop = "None" )
                 => /\ pc' = "parsing"
                    /\ drills' = IF IsNone(current_x') \/ IsNone(current_y') THEN drills
                                 ELSE Append(drills, Drill(current_x', current_y', current_tool))
         ELSE current_x' = current_x /\ current_y' = current_y]_vars

\* a G85 line of the body with a coordinate on each side of G85, all of them
\* implicit
ReadsSlotLine ==
    /\ ReadsLine /\ ~in_header /\ eline'.k = "G85"
    /\ eline'.x # Absent \/ eline'.y # Absent
    /\ eline'.x2 # Absent \/ eline'.y2 # Absent
    /\ \A tok \in {eline'.x, eline'.y, eline'.x2, eline'.y2} :
          tok = Absent \/ ImplicitToken(tok)

\* C28: on a G85 line a missing start coordinate is the slot position left
\* by the G85 lines before it and a missing stop coordinate is the start
\* coordinate of the line; the line appends no Slot when one of the four is
\* unknown; it sets the slot position to the last coordinate of each axis it
\* carries and leaves the drill position unchanged; every other line leaves
\* the slot position unchanged.
C28_SlotSticky ==
    [][ReadsLine =>
         IF ReadsSlotLine
         THEN LET sx == AxisValue(eline'.x, slot_current_x)
                  sy == AxisValue(eline'.y, slot_current_y)
                  ex == AxisValue(eline'.x2, sx)
                  ey == AxisValue(eline'.y2, sy)
              IN  /\ slots' = IF IsNone(sx) \/ IsNone(sy) THEN slots
                              ELSE Append(slots, Slot(sx, sy, ex, ey, current_tool))
                  /\ slot_current_x' = ex /\ slot_current_y' = ey
                  /\ current_x' = current_x /\ current_y' = current_y
                  /\ pc' = "parsing"
         ELSE eline'.k # "G85" =>
                 (slot_current_x' = slot_current_x /\ slot_current_y' = slot_current_y)]_vars

\* a G85 line without its start X appended a Slot that starts at the X of
\* the G85 line before it, which is not the X of the drill position
C28_Witness ==
    /\ eline.k = "G85" /\ eline.x = Absent
    /\ Len(slots) = 2 /\ Len(drills) = 1
    /\ slots[2].start[1] = slots[1].stop[1]
    /\ slots[2].start[1] # current_x

\* C29: a comment line that is not an Allegro header marker, a Holesize
\* entry or a format declaration changes no tool, Drill, Slot, units, zero
\* mode, format, current tool or sticky position, in the header and in the
\* body, and the parse goes on.
C29_CommentInert ==
    [][(ReadsLine /\ eline'.k = ";") =>
         /\ tools' = tools /\ drills' = drills /\ slots' = slots
         /\ units' = units /\ zeros' = zeros /\ fmt' = fmt
         /\ current_tool' = current_tool
         /\ current_x' = current_x /\ current_y' = current_y
         /\ slot_current_x' = slot_current_x /\ slot_current_y' = slot_current_y
         /\ pc' = "parsing"]_vars

\* C30: a line read while the header is open appends no Drill and no Slot
\* and leaves the current tool unchanged, a T line included.
C30_HeaderAppendsNothing ==
    [][(ReadsLine /\ in_header) =>
         /\ Len(drills') = Len(drills) /\ Len(slots') = Len(slots)
         /\ current_tool' = current_tool]_vars

\* a T line and then a coordinate line were read in an open header: the tool
\* is defined, not selected, and there is no Drill
C30_Witness ==
    /\ in_header /\ eline.k = "XY"
    /\ DOMAIN tools # {} /\ current_tool = EmptyTool
    /\ drills = <<>>

\* the diameter field of a tool line is missing, empty or spells zero
NoDiameter(line) ==
    \/ line.c = Absent \/ Len(line.c) = 0
    \/ FloatLiteral(line.c) = RInt(0)

\* a T line that defines a tool: in the header a line with a C or an F field,
\* in the body of a headerless file every T line
DefinesTool ==
    /\ ReadsLine /\ eline'.k = "T"
    /\ \/ in_header /\ (eline'.c # Absent \/ eline'.fs # "")
       \/ ~in_header /\ headerless

\* C31: no tool ever has the diameter 0 or a missing diameter, and a tool
\* definition whose diameter is absent or zero, in the header or in a
\* headerless body, does not end the parse and sets the diameterless flag.
C31_DiameterlessFallback ==
    /\ [](\A t \in DOMAIN tools : ~IsNone(tools[t].C) /\ tools[t].C # RInt(0))
    /\ [][(DefinesTool /\ NoDiameter(eline')) =>
             (pc' = "parsing" /\ ret' # "fail" /\ diameterless')]_vars

\* the placeholder diameter of tool id, 1.0 + (id - 1) * 0.01, in unit system u
Placeholder(id, u) ==
    IF u = "MM" THEN Rat(99 + id, 100) ELSE Rat(10 * (99 + id), 25400)

\* C32: a body line T<id> with no diameter, read in headerless mode, defines
\* tool id with the placeholder diameter expressed in the units of the
\* document and sets the diameterless flag.
C32_PlaceholderDiameter ==
    [][(ReadsLine /\ eline'.k = "T" /\ eline'.c = Absent /\ ~in_header /\ headerless) =>
         LET id == DigitsValue(eline'.t)
         IN  /\ id \in DOMAIN tools'
             /\ tools'[id].C = Placeholder(id, units')
             /\ diameterless']_vars

\* C33: bounds() called after create_geometry on a document that has tools,
\* none of which has geometry, returns (0, 0, 0, 0).
C33_BoundsNoGeometry ==
    [][(/\ call.op = "create_geometry" /\ Calls("bounds")
        /\ DOMAIN tools # {}
        /\ \A t \in DOMAIN tools : tools[t].solid_geometry = <<>>)
       => call'.out = Returned(<<Zero, Zero, Zero, Zero>>)]_vars

\* the number of the tool selected so far, 0 when none is
SelectedSoFar == IF current_tool = EmptyTool THEN 0 ELSE current_tool

\* C34: in an Allegro file a Holesize entry defines the tool numbered one
\* more than the entries met before it; in the body each stop command selects
\* the tool numbered one more than the stop command before it, starting with
\* 1, no other line changes the selection, the Allegro counter stands at the
\* tool selected last, and an appended Drill or Slot carries that tool.
C34_AllegroToolChange ==
    /\ []((allegro_warning /\ ~in_header) => name_tool = SelectedSoFar)
    /\ [][(ReadsLine /\ allegro_warning) =>
            /\ eline'.k = ";Holesize" =>
                  DOMAIN tools' = DOMAIN tools \cup {Cardinality(DOMAIN tools) + 1}
            /\ current_tool' = IF eline'.k = "G90" /\ ~in_header
                               THEN SelectedSoFar + 1 ELSE current_tool
            /\ \A i \in (Len(drills) + 1)..Len(drills') : drills'[i].tool = current_tool
            /\ \A i \in (Len(slots) + 1)..Len(slots') : slots'[i].tool = current_tool]_vars

\* C35 as claimed: every G00 coordinate line read in the body opens the rout
\* mode; from then on the mode stays and no line appends a Drill.
C35_AnyRoutLine ==
    [][ReadsLine =>
         /\ (eline'.k = "XY" /\ eline'.g = "G00" /\ ~in_header /\ pc' = "parsing")
            => match_routing_start' = "G00"
         /\ match_routing_start = "G00"
            => (match_routing_start' = "G00" /\ Len(drills') = Len(drills))]_vars

\* C35: a G00 coordinate line of the body whose position is known on both
\* axes opens the rout mode, and a G00 line whose position is unknown on an
\* axis does not; once the mode is open it stays and no line appends a
\* Drill, also after a G01 line has closed the rout.
C35_NoDrillAfterRout ==
    [][ReadsLine =>
         /\ (eline'.k = "XY" /\ eline'.g = "G00" /\ ~in_header /\ pc' = "parsing")
            => IF IsNone(current_x') \/ IsNone(current_y')
               THEN match_routing_start' = match_routing_start
               ELSE match_routing_start' = "G00"
         /\ match_routing_start = "G00"
            => (match_routing_start' = "G00" /\ Len(drills') = Len(drills))]_vars

\* a G00 line, a G01 line that closed the rout with a Slot, then a coordinate
\* line with neither: no Drill
C35_Witness ==
    /\ line_num = 3 /\ eline.k = "XY" /\ eline.g = ""
    /\ Len(slots) = 1 /\ drills = <<>>
    /\ match_routing_start = "G00" /\ match_routing_stop = "G01"

\* C36: a coordinate line of the body appends a Slot only when it carries G01
\* and a rout is open; it appends one Slot, which starts at the recorded
\* start point, and closes the rout, so that a later G01 line appends nothing
\* until a G00 line opens a rout again; only a G00 line opens a rout; a line
\* with neither G00 nor G01 read while a rout is open appends nothing and
\* leaves it open; a G00 line at a known position records that position as
\* the start point, also when a rout is open.
C36_RoutSlots ==
    [][ReadsLine =>
         IF eline'.k = "XY" /\ ~in_header
         THEN /\ Len(slots') > Len(slots) =>
                   /\ Len(slots') = Len(slots) + 1
                   /\ routing_flag = 0 /\ eline'.g = "G01" /\ routing_flag' = 1
                   /\ Last(slots').start = <<slot_start_x, slot_start_y>>
              /\ (routing_flag = 1 /\ routing_flag' = 0) => eline'.g = "G00"
              /\ (routing_flag = 0 /\ eline'.g = "") =>
                   (slots' = slots /\ drills' = drills /\ routing_flag' = 0)
              /\ ( /\ eline'.g = "G00" /\ pc' = "parsing"
                   /\ ~IsNone(current_x') /\ ~IsNone(current_y') ) =>
                   /\ routing_flag' = 0 /\ slots' = slots
                   /\ slot_start_x' = current_x' /\ slot_start_y' = current_y'
         ELSE routing_flag' = routing_flag]_vars

\* a G00 line, a G01 line that appended the Slot, and a second G01 line that
\* appended nothing
C36_Witness ==
    /\ line_num = 3 /\ eline.k = "XY" /\ eline.g = "G01"
    /\ routing_flag = 1 /\ Len(slots) = 1
    /\ slots[1].stop # <<current_x, current_y>>

\* C37: a coordinate line of the body that carries no R<n> appends at most
\* one Drill.
C37_RepeatNotCarried ==
    [][(ReadsLine /\ eline'.k = "XY" /\ ~in_header /\ eline'.r < 0) =>
         Len(drills') <= Len(drills) + 1]_vars

\* the units directives: M71/M72, a line that starts with INCH or METRIC, a
\* header line that contains INCH or METRIC
DirectiveKinds == {"M7x", "UNITS", "..UNITS"}

\* C38: a units directive read by the parse leaves the value of every tool
\* diameter defined so far and the coordinates of every Drill and Slot
\* collected so far as they were.
C38_DirectiveKeepsValues ==
    [][(ReadsLine /\ eline'.k \in DirectiveKinds) =>
         /\ \A t \in DOMAIN tools : t \in DOMAIN tools' /\ tools'[t].C = tools[t].C
         /\ \A i \in 1..Len(drills) : drills'[i].point = drills[i].point
         /\ \A i \in 1..Len(slots) :
              slots'[i].start = slots[i].start /\ slots'[i].stop = slots[i].stop]_vars

\* C39: rotate by a non-zero angle with point=None leaves the point of every
\* Drill and the start and stop of every Slot as they were; with a point
\* given it replaces each of them by its rotation by the angle about that
\* point.
C39_RotateCoordinates ==
    [][(Calls("rotate") /\ call'.args[1] # 0) =>
         LET angle == call'.args[1]
             point == call'.args[2]
             Turned(p) == IF point = NoPoint THEN p ELSE RotatePoint(p, angle, point)
         IN  /\ Len(drills') = Len(drills) /\ Len(slots') = Len(slots)
             /\ \A i \in 1..Len(drills) : drills'[i].point = Turned(drills[i].point)
             /\ \A i \in 1..Len(slots) :
                  /\ slots'[i].start = Turned(slots[i].start)
                  /\ slots'[i].stop = Turned(slots[i].stop)]_vars

\* a Drill parsed at (10, 2) and a Slot from (10, 2) to (0, 10), in inches,
\* after rotate(90, (1, 0))
C39_Witness ==
    /\ call.op = "rotate" /\ call.args = <<90, <<RInt(1), RInt(0)>>>> /\ n_calls = 1
    /\ Len(drills) = 1 /\ Len(slots) = 1
    /\ drills[1].point = RotatePoint(<<RInt(10), RInt(2)>>, 90, <<RInt(1), RInt(0)>>)
    /\ slots[1].stop = RotatePoint(<<RInt(0), RInt(10)>>, 90, <<RInt(1), RInt(0)>>)

\* the tool-change position of the parameters p
ToolchangePosition(p) ==
    IF p.xy_toolchange # NoPoint THEN p.xy_toolchange
    ELSE IF p.type = "Excellon" THEN <<p.oldx, p.oldy>>
    ELSE <<p.x, p.y>>

\* C40: the code returned by toolchange_code has one G00 move, and a second
\* one when f_plunge is set, and each is written with the tool-change X after
\* X and the tool-change Y after Y: xy_toolchange when it is given, else the
\* previous position for an Excellon object and the current position for any
\* other.
C40_ToolchangeMove ==
    call.op = "toolchange_code" =>
        LET p == call.args[1]
            gcode == call.out.value
            moves == {i \in DOMAIN gcode : gcode[i].w = "G00"}
        IN  /\ Cardinality(moves) = IF p.f_plunge THEN 2 ELSE 1
            /\ \A i \in moves :
                 /\ gcode[i].a[1] = coordinate_format(p.coords_decimals, ToolchangePosition(p)[1])
                 /\ gcode[i].a[2] = coordinate_format(p.coords_decimals, ToolchangePosition(p)[2])

====
